---- MODULE Spec2Model ----
(***************************************************************************)
(* Model of ProcessMonitor (src/process_monitor.py): the sampling loop     *)
(* started by start_monitoring, the store self.data guarded by data_lock,  *)
(* and the caller's start_monitoring / stop_monitoring / get_data.         *)
(*                                                                         *)
(* Strings are sequences of one-character strings, so that is_pid, int()   *)
(* and the f"PID_{pid}" formatting are computed rather than assumed.       *)
(* Python objects with identity (the dict self.data and the lists in it)   *)
(* live in a heap: `dicts` maps a dict id to its target -> list mapping,   *)
(* and a list is identified by <<dict id, target>>, because a list is only *)
(* ever created by defaultdict(list) inside one dict and never moved.      *)
(* Time is a discrete clock `now` that advances only where the code blocks *)
(* (the external queries of one collection, time.sleep).                   *)
(***************************************************************************)
EXTENDS Integers, Sequences, FiniteSets, TLC

VARIABLES
    targets,        \* self.targets: the configured targets, in order
    monitoring,     \* self.monitoring
    monitor_thread, \* self.monitor_thread: 0 is None, else a thread id
    data,           \* self.data: the id of the dict it refers to
    dicts,          \* heap: dict id -> [target -> list of samples]
    data_lock,      \* self.data_lock: 0 is free, else the holding thread id
    session,        \* report_dir / sampling_interval / monitoring_duration
    threads,        \* thread id -> the locals and position of monitor_loop
    now,            \* time.time() / datetime.now()
    caller,         \* the calling thread: its position, and whether the last
                    \* stop_monitoring has returned with no start since
    snap,           \* the mapping the last get_data() returned
    monitor_config, \* self.monitor_config: which optional metrics are sampled
    file,           \* the data file of save_data_to_file / load_data_from_file
    result,         \* what the last save_data_to_file / load_data_from_file /
                    \* load_data / analyze_data call returned
    report,         \* a PerformanceReportTemplate: its data and report_data
    probe           \* one find_process_by_name call: what the system answers
                    \* and what the call returned

vars == <<targets, monitoring, monitor_thread, data, dicts, data_lock,
          session, threads, now, caller, snap,
          monitor_config, file, result, report, probe>>

(* What is fixed at construction *)
config == <<targets, monitor_config>>

(* What the sampling thread and start / stop / get_data never touch *)
offline == <<file, result, report, probe>>

----------------------------------------------------------------------------
(* Bounds of the model. *)

MaxSessions == 2    \* start_monitoring calls that start a thread (SpecSessions)
MaxIters == 2       \* loop iterations one thread begins (Spec)
TimingIters == 3    \* the same, in SpecTiming
SessionIters == 2   \* the same, in SpecSessions
LongIters == 6      \* the same, in SpecScenario (interval=3, duration=10)
PersistIters == 2   \* the same, in SpecPersist
MaxCalls == 2       \* save_data_to_file / load_data_from_file calls (SpecPersist)
ReportIters == 2    \* loop iterations one thread begins (SpecReport)
MaxSeries == 3      \* samples of a series given to analyze_data (SpecAnalysis)
MaxStd == 1000      \* the largest standard deviation looked for, in hundredths
MetricIters == 2    \* loop iterations one thread begins (SpecMetrics)
RestartIters == 2   \* the same, in SpecRestart
MainIters == 2      \* the same, in SpecMain

(* duration=None (the default of start_monitoring) *)
None == -1

Intervals == {1, 2}
Durations == {None, 0, 1, 2, 3}
CollectTimes == {0, 1}

svc == <<"s", "v", "c">>
pid12 == <<"1", "2">>
TargetUniverse == {svc, pid12}
TargetConfigs == {<<>>, <<svc, pid12>>}

ThreadIds == 1..MaxSessions
DictIds == 0..MaxSessions

----------------------------------------------------------------------------
(* Strings *)

DigitChars == {"0", "1", "2", "3", "4", "5", "6", "7", "8", "9"}

DigitVal(c) ==
    CASE c = "0" -> 0 [] c = "1" -> 1 [] c = "2" -> 2 [] c = "3" -> 3
      [] c = "4" -> 4 [] c = "5" -> 5 [] c = "6" -> 6 [] c = "7" -> 7
      [] c = "8" -> 8 [] c = "9" -> 9

DigitChar(d) ==
    CASE d = 0 -> "0" [] d = 1 -> "1" [] d = 2 -> "2" [] d = 3 -> "3"
      [] d = 4 -> "4" [] d = 5 -> "5" [] d = 6 -> "6" [] d = 7 -> "7"
      [] d = 8 -> "8" [] d = 9 -> "9"

AllDigits(s) == Len(s) > 0 /\ \A i \in 1..Len(s) : s[i] \in DigitChars

(* int(target) succeeds: an optional sign and decimal digits (the blanks and
   underscores int() also accepts do not occur in the targets modelled). *)
is_pid(target) ==
    IF Len(target) > 0 /\ target[1] \in {"+", "-"}
    THEN AllDigits(Tail(target))
    ELSE AllDigits(target)

RECURSIVE DigitsValue(_)
DigitsValue(s) ==
    IF s = <<>> THEN 0
    ELSE 10 * DigitsValue(SubSeq(s, 1, Len(s) - 1)) + DigitVal(s[Len(s)])

(* int(target), for a target is_pid accepts *)
int(target) ==
    IF target[1] = "-" THEN 0 - DigitsValue(Tail(target))
    ELSE IF target[1] = "+" THEN DigitsValue(Tail(target))
    ELSE DigitsValue(target)

RECURSIVE NatStr(_)
NatStr(n) ==
    IF n < 10 THEN <<DigitChar(n)>>
    ELSE NatStr(n \div 10) \o <<DigitChar(n % 10)>>

(* str(pid) as an f-string formats it *)
str(n) == IF n < 0 THEN <<"-">> \o NatStr(0 - n) ELSE NatStr(n)

(* f"PID_{pid}" *)
PidName(pid) == <<"P", "I", "D", "_">> \o str(pid)

----------------------------------------------------------------------------
(* What the operating system answers during one collect_data_for_target call:
   raises - an exception escapes inside the try of collect_data_for_target;
   pids   - what find_process_by_name returns ([] covers no match, a pgrep
            timeout and a pgrep failure);
   info   - what get_process_info returns for the candidate PID (found FALSE
            is its None: the process is gone, ps timed out, or its output
            had an unexpected shape); its fd_count and thread_count are what
            get_file_descriptors_info and get_thread_count_info return for
            that PID, which are asked only when monitor_config enables them
            (0 is also what both return when their query fails). *)
NoInfo ==
    [found |-> FALSE, cpu_percent |-> 0, memory_percent |-> 0, rss_kb |-> 0,
     comm |-> <<>>, args |-> <<>>,
     fd_count |-> 0, thread_count |-> 0]
LiveInfo ==
    [found |-> TRUE, cpu_percent |-> 2, memory_percent |-> 1, rss_kb |-> 2048,
     comm |-> svc, args |-> svc \o <<" ", "-", "d">>,
     fd_count |-> 4, thread_count |-> 3]
(* A live process whose thread count query gives 0 *)
QuietInfo == [LiveInfo EXCEPT !.thread_count = 0]
Envs == [raises : BOOLEAN, pids : {<<>>, <<7>>}, info : {NoInfo, LiveInfo}]
(* The answers of a system on which every target is a live process *)
LiveEnvs == {e \in Envs : ~e.raises /\ e.pids # <<>> /\ e.info.found}

(* self.default_config, as far as the optional metrics go *)
DefaultConfig == [file_descriptors |-> FALSE, thread_count |-> FALSE]
AllMetrics == [file_descriptors |-> TRUE, thread_count |-> TRUE]

(* data.update({'fd_count': ...}) and data.update({'thread_count': ...}),
   each under its `if self.monitor_config.get(...)` *)
WithOptional(d, fd, th) ==
    CASE monitor_config.file_descriptors /\ monitor_config.thread_count ->
             d @@ [fd_count |-> fd, thread_count |-> th]
      [] monitor_config.file_descriptors /\ ~monitor_config.thread_count ->
             d @@ [fd_count |-> fd]
      [] ~monitor_config.file_descriptors /\ monitor_config.thread_count ->
             d @@ [thread_count |-> th]
      [] OTHER -> d

(* create_zero_data that ignores the pid it is given *)
create_zero_data_pid0(target, target_name, pid, ts) ==
    WithOptional([timestamp |-> ts,
                  target |-> target,
                  target_name |-> target_name,
                  pid |-> 0,
                  cpu_percent |-> 0,
                  memory_percent |-> 0,
                  memory_mb |-> 0,
                  rss_kb |-> 0,
                  command |-> <<>>,
                  args |-> <<>>], 0, 0)

(* create_zero_data without the optional metrics *)
create_zero_data_bare(target, target_name, pid, ts) ==
    [timestamp |-> ts,
     target |-> target,
     target_name |-> target_name,
     pid |-> IF pid # None THEN pid ELSE 0,
     cpu_percent |-> 0,
     memory_percent |-> 0,
     memory_mb |-> 0,
     rss_kb |-> 0,
     command |-> <<>>,
     args |-> <<>>]

(* create_zero_data(target, target_name, pid); ts is datetime.now().
   system_load and system_mem_available_mb are system-wide values and are
   left out of a sample. *)
create_zero_data(target, target_name, pid, ts) ==
    WithOptional([timestamp |-> ts,
                  target |-> target,
                  target_name |-> target_name,
                  pid |-> IF pid # None THEN pid ELSE 0,
                  cpu_percent |-> 0,
                  memory_percent |-> 0,
                  memory_mb |-> 0,
                  rss_kb |-> 0,
                  command |-> <<>>,
                  args |-> <<>>], 0, 0)

(* The data dict collect_data_for_target builds for a live process.
   vsz_kb is copied from process_info exactly as rss_kb is, and args as
   command is. *)
LiveData(target, target_name, pid, info, ts) ==
    WithOptional([timestamp |-> ts,
                  target |-> target,
                  target_name |-> target_name,
                  pid |-> pid,
                  cpu_percent |-> info.cpu_percent,
                  memory_percent |-> info.memory_percent,
                  memory_mb |-> info.rss_kb \div 1024,
                  rss_kb |-> info.rss_kb,
                  command |-> info.comm,
                  args |-> info.args], info.fd_count, info.thread_count)

(* collect_data_for_target(target): <<>> is its None, <<d>> the dict d *)
collect_data_for_target(target, env, ts) ==
    IF env.raises THEN <<>>
    ELSE IF is_pid(target)
    THEN IF ~env.info.found
         THEN <<create_zero_data(target, PidName(int(target)), int(target), ts)>>
         ELSE <<LiveData(target, PidName(int(target)), int(target), env.info, ts)>>
    ELSE IF env.pids = <<>>
         THEN <<create_zero_data(target, target, None, ts)>>
         ELSE IF ~env.info.found
              THEN <<create_zero_data(target, target, env.pids[1], ts)>>
              ELSE <<LiveData(target, target, env.pids[1], env.info, ts)>>

(* The entry collect_all_data stores for one target *)
DataOrZero(target, env, ts) ==
    LET d == collect_data_for_target(target, env, ts)
    IN IF d # <<>> THEN d[1] ELSE create_zero_data(target, target, None, ts)

(* The keys of a dict filled in the order of tgts: first occurrences *)
DictKeys(tgts) ==
    SelectSeq([i \in 1..Len(tgts) |->
                  IF \E j \in 1..(i - 1) : tgts[j] = tgts[i] THEN <<>> ELSE <<tgts[i]>>],
              LAMBDA x : x # <<>>)

(* collect_all_data without the else branch: a target whose collection
   returned None gets no entry. *)
collect_all_data_skip(tgts, envs, ts) ==
    LET keys == DictKeys(tgts)
        last(t) == CHOOSE i \in 1..Len(tgts) :
                      tgts[i] = t /\ \A j \in (i + 1)..Len(tgts) : tgts[j] # t
        got == [n \in 1..Len(keys) |->
                   collect_data_for_target(keys[n][1], envs[last(keys[n][1])], ts)]
    IN [n \in 1..Len(SelectSeq(got, LAMBDA d : d # <<>>)) |->
           SelectSeq(got, LAMBDA d : d # <<>>)[n][1]]

(* collect_all_data(): the items of all_data in dict order; a later
   occurrence of a target overwrites the value of an earlier one.
   envs[i] is what the system answers for the i-th target. *)
collect_all_data(tgts, envs, ts) ==
    LET keys == DictKeys(tgts)
        last(t) == CHOOSE i \in 1..Len(tgts) :
                      tgts[i] = t /\ \A j \in (i + 1)..Len(tgts) : tgts[j] # t
    IN [n \in 1..Len(keys) |->
           DataOrZero(keys[n][1], envs[last(keys[n][1])], ts)]

(* How the collection of one target went, and the PID that was queried
   (None when there was none): "live" a process was measured; "unresolved"
   the name matched no process; "gone" the candidate PID gave no process
   info; "raised" an exception escaped. *)
Outcome(target, env) ==
    IF env.raises THEN [kind |-> "raised", candidate |-> None]
    ELSE IF is_pid(target)
    THEN [kind |-> IF env.info.found THEN "live" ELSE "gone",
          candidate |-> int(target)]
    ELSE IF env.pids = <<>> THEN [kind |-> "unresolved", candidate |-> None]
    ELSE [kind |-> IF env.info.found THEN "live" ELSE "gone",
          candidate |-> env.pids[1]]

(* The names that matched no process in a collection *)
Unmatched(tgts, envs) ==
    {tgts[i] : i \in {j \in 1..Len(tgts) :
                         Outcome(tgts[j], envs[j]).kind = "unresolved"}}

(* Outcome, for the items of all_data *)
Outcomes(tgts, envs) ==
    LET keys == DictKeys(tgts)
        last(t) == CHOOSE i \in 1..Len(tgts) :
                      tgts[i] = t /\ \A j \in (i + 1)..Len(tgts) : tgts[j] # t
    IN [n \in 1..Len(keys) |-> Outcome(keys[n][1], envs[last(keys[n][1])])]

----------------------------------------------------------------------------
(* State *)

NoThread ==
    [pc |-> "none", interval |-> 0, duration |-> None, start_time |-> 0,
     all_data |-> <<>>, k |-> 0, iters |-> 0,
     \* history, read by the properties only:
     outcomes |-> <<>>,    \* how the collection of each item of all_data went
     completed |-> 0,      \* cycles whose batch this thread has appended
     raised |-> FALSE,     \* an exception has reached `except Exception`
     exit_by |-> "none",   \* how the loop was left: "flag" or "duration"
     cycle_start |-> None, \* when the last collect_all_data call began
     took |-> 0,           \* how long that call took
     never_matched |-> TargetUniverse]
                           \* the targets that matched no process in any
                           \* cycle of this thread so far

EmptyDict == [t \in TargetUniverse |-> <<>>]

NoSnap == [valid |-> FALSE, id |-> 0, keys |-> {}, lens |-> [t \in TargetUniverse |-> 0]]

(* The keys of a dict of the heap. A key is created by self.data[target]
   just before .append, so a key is present exactly when its list is not
   empty. *)
KeysOf(id) == {t \in TargetUniverse : dicts[id][t] # <<>>}

(* The heap once the dict newData is self.data and newSnap is the mapping
   the caller holds: a list that neither of them refers to is garbage, and
   its slot is given back empty. *)
Collected(heap, newData, newSnap) ==
    [i \in DictIds |-> [t \in TargetUniverse |->
        IF i = newData \/ (newSnap.valid /\ newSnap.id = i /\ t \in newSnap.keys)
        THEN heap[i][t] ELSE <<>>]]

(* A defaultdict(list) just created: a dict that neither self.data nor the
   mapping the caller holds refers to. *)
FreshDict ==
    CHOOSE i \in DictIds :
        /\ i # data /\ ~(snap.valid /\ snap.id = i)
        /\ \A j \in 0..(i - 1) : j = data \/ (snap.valid /\ snap.id = j)

(* No file at the path (open raises FileNotFoundError) *)
NoFile == [kind |-> "absent"]

(* No call has returned yet *)
NoResult == [op |-> "none", value |-> "None", failed |-> FALSE, n |-> 0]

(* PerformanceReportTemplate.__init__: self.data = None, report_data = {} *)
NoReport == [data |-> NoFile, report_data |-> <<>>, analyzed |-> <<>>]

(* No find_process_by_name call is under way *)
NoProbe == [pc |-> "none"]

(* ProcessMonitor.__init__ on the targets and monitor_config given, beside
   the files, a report template and the name to resolve *)
InitOf(P) ==
    /\ targets \in P.targets
    /\ monitor_config \in P.monitor_configs
    /\ file \in P.files
    /\ report = NoReport
    /\ probe \in P.probes
    /\ result = NoResult
    /\ monitoring = FALSE
    /\ monitor_thread = 0
    /\ data = 0
    /\ dicts = [i \in DictIds |-> EmptyDict]
    /\ data_lock = 0
    /\ session = [report_dir |-> 0, sampling_interval |-> None,
                  monitoring_duration |-> None, started |-> 0]
    /\ threads = [t \in ThreadIds |-> NoThread]
    /\ now = 0
    /\ caller = [pc |-> "ready", stopped |-> FALSE]
    /\ snap = NoSnap

(* ProcessMonitor.__init__ with the default monitor_config, no data file *)
InitWith(configs) ==
    InitOf([targets |-> configs, monitor_configs |-> {DefaultConfig},
            files |-> {NoFile}, probes |-> {NoProbe}])

Init == InitWith(TargetConfigs)

----------------------------------------------------------------------------
(* The caller *)

(* start_monitoring without the test of the flag *)
start_monitoring_restart(interval, duration, maxSessions) ==
    /\ caller.pc = "ready"
    /\ session.started < maxSessions
    /\ LET id == session.started + 1
           d == FreshDict
       IN /\ session' = [report_dir |-> id,
                         sampling_interval |-> interval,
                         monitoring_duration |-> duration,
                         started |-> id]
          /\ monitoring' = TRUE
          /\ data' = d
          /\ dicts' = Collected([dicts EXCEPT ![d] = EmptyDict], d, snap)
          /\ threads' = [threads EXCEPT ![id] =
                            [NoThread EXCEPT !.pc = "begin",
                                             !.interval = interval,
                                             !.duration = duration]]
          /\ monitor_thread' = id
          /\ caller' = [caller EXCEPT !.stopped = FALSE]
    /\ UNCHANGED <<config, offline, data_lock, now, snap>>

(* start_monitoring that keeps the store it finds *)
start_monitoring_keep(interval, duration, maxSessions) ==
    /\ caller.pc = "ready"
    /\ IF monitoring
       THEN UNCHANGED vars
       ELSE /\ session.started < maxSessions
            /\ LET id == session.started + 1
               IN /\ session' = [report_dir |-> id,
                                 sampling_interval |-> interval,
                                 monitoring_duration |-> duration,
                                 started |-> id]
                  /\ monitoring' = TRUE
                  /\ threads' = [threads EXCEPT ![id] =
                                    [NoThread EXCEPT !.pc = "begin",
                                                     !.interval = interval,
                                                     !.duration = duration]]
                  /\ monitor_thread' = id
                  /\ caller' = [caller EXCEPT !.stopped = FALSE]
            /\ UNCHANGED <<config, offline, data, dicts, data_lock, now, snap>>

(* start_monitoring(interval, duration): returns at once when the flag is
   set; otherwise creates the report directory, stores the parameters, sets
   the flag, replaces self.data by a fresh defaultdict and starts a thread
   running monitor_loop. *)
start_monitoring(interval, duration, maxSessions) ==
    /\ caller.pc = "ready"
    /\ IF monitoring
       THEN UNCHANGED vars
       ELSE /\ session.started < maxSessions
            /\ LET id == session.started + 1
                   d == FreshDict
               IN /\ session' = [report_dir |-> id,
                                 sampling_interval |-> interval,
                                 monitoring_duration |-> duration,
                                 started |-> id]
                  /\ monitoring' = TRUE
                  /\ data' = d
                  /\ dicts' = Collected([dicts EXCEPT ![d] = EmptyDict], d, snap)
                  /\ threads' = [threads EXCEPT ![id] =
                                    [NoThread EXCEPT !.pc = "begin",
                                                     !.interval = interval,
                                                     !.duration = duration]]
                  /\ monitor_thread' = id
                  /\ caller' = [caller EXCEPT !.stopped = FALSE]
            /\ UNCHANGED <<config, offline, data_lock, now, snap>>

(* stop_monitoring, up to the join: clears the flag; with no thread object
   it returns at once. *)
stop_monitoring ==
    /\ caller.pc = "ready"
    /\ monitoring' = FALSE
    /\ caller' = IF monitor_thread # 0
                 THEN [caller EXCEPT !.pc = "join"]
                 ELSE [caller EXCEPT !.stopped = TRUE]
    /\ UNCHANGED <<config, offline, monitor_thread, data, dicts, data_lock, session,
                   threads, now, snap>>

(* stop_monitoring without the join *)
stop_monitoring_nojoin ==
    /\ caller.pc = "join"
    /\ caller' = [pc |-> "ready", stopped |-> TRUE]
    /\ UNCHANGED <<config, offline, monitoring, monitor_thread, data, dicts,
                   data_lock, session, threads, now, snap>>

(* stop_monitoring: self.monitor_thread.join() returns once that thread has
   ended, and stop_monitoring returns. *)
stop_monitoring_join ==
    /\ caller.pc = "join"
    /\ threads[monitor_thread].pc = "done"
    /\ caller' = [pc |-> "ready", stopped |-> TRUE]
    /\ UNCHANGED <<config, offline, monitoring, monitor_thread, data, dicts,
                   data_lock, session, threads, now, snap>>

(* get_data without `with self.data_lock` *)
get_data_nolock ==
    /\ caller.pc = "ready"
    /\ snap' = [valid |-> TRUE, id |-> data, keys |-> KeysOf(data),
                lens |-> [t \in TargetUniverse |-> Len(dicts[data][t])]]
    /\ dicts' = Collected(dicts, data, snap')
    /\ UNCHANGED <<config, offline, monitoring, monitor_thread, data,
                   data_lock, session, threads, now, caller>>

(* get_data(): dict(self.data) under data_lock, a new mapping whose values
   are the very list objects of the store. snap.lens records how long each
   list was when get_data returned. *)
get_data ==
    /\ caller.pc = "ready"
    /\ data_lock = 0
    /\ snap' = [valid |-> TRUE, id |-> data, keys |-> KeysOf(data),
                lens |-> [t \in TargetUniverse |-> Len(dicts[data][t])]]
    /\ dicts' = Collected(dicts, data, snap')
    /\ UNCHANGED <<config, offline, monitoring, monitor_thread, data,
                   data_lock, session, threads, now, caller>>

(* What the caller reads in the mapping get_data returned: its lists are
   the store's own list objects, read at the time of the look. *)
SnapSeries(t) == IF t \in snap.keys THEN dicts[snap.id][t] ELSE <<>>

----------------------------------------------------------------------------
(* monitor_loop, run by thread t *)

(* start_time = time.time() and the header *)
LoopBegin(t) ==
    /\ threads[t].pc = "begin"
    /\ threads' = [threads EXCEPT ![t].pc = "top", ![t].start_time = now]
    /\ UNCHANGED <<config, offline, monitoring, monitor_thread, data, dicts,
                   data_lock, session, now, caller, snap>>

(* while self.monitoring: *)
LoopTest(t, maxIters) ==
    /\ threads[t].pc = "top"
    /\ IF monitoring
       THEN /\ threads[t].iters < maxIters
            /\ threads' = [threads EXCEPT ![t].pc = "collect",
                                          ![t].iters = @ + 1]
       ELSE threads' = [threads EXCEPT ![t].pc = "footer",
                                       ![t].exit_by = "flag"]
    /\ UNCHANGED <<config, offline, monitoring, monitor_thread, data, dicts,
                   data_lock, session, now, caller, snap>>

(* A collection that gives up on a target once its collection has failed:
   a target whose last sample in the store is a zero sample is not asked
   for again. *)
Collect_sticky(t, collectTimes, envSet) ==
    /\ threads[t].pc = "collect"
    /\ \E c \in collectTimes, envs \in [1..Len(targets) -> envSet] :
          LET failed(i) == /\ dicts[data][targets[i]] # <<>>
                           /\ dicts[data][targets[i]][Len(dicts[data][targets[i]])].command = <<>>
              asked == [i \in 1..Len(targets) |->
                           IF failed(i)
                           THEN [raises |-> FALSE, pids |-> <<>>, info |-> NoInfo]
                           ELSE envs[i]]
              all_data == collect_all_data(targets, asked, now + c)
          IN /\ now' = now + c
             /\ threads' = [threads EXCEPT
                               ![t].cycle_start = now,
                               ![t].took = c,
                               ![t].never_matched = @ \cap Unmatched(targets, envs),
                               ![t].all_data = all_data,
                               ![t].outcomes = Outcomes(targets, envs),
                               ![t].pc = IF all_data # <<>> THEN "lock"
                                         ELSE "display"]
    /\ UNCHANGED <<config, offline, monitoring, monitor_thread, data, dicts,
                   data_lock, session, caller, snap>>

(* A collection out of which the exception of a target escapes: control
   goes to `except Exception` with no batch *)
Collect_raising(t, collectTimes, envSet) ==
    /\ threads[t].pc = "collect"
    /\ \E c \in collectTimes, envs \in [1..Len(targets) -> envSet] :
          LET all_data == collect_all_data(targets, envs, now + c)
              escaped == \E i \in 1..Len(targets) : envs[i].raises
          IN /\ now' = now + c
             /\ threads' = [threads EXCEPT
                               ![t].cycle_start = now,
                               ![t].took = c,
                               ![t].never_matched = @ \cap Unmatched(targets, envs),
                               ![t].all_data = IF escaped THEN <<>> ELSE all_data,
                               ![t].outcomes = IF escaped THEN <<>>
                                               ELSE Outcomes(targets, envs),
                               ![t].raised = @ \/ escaped,
                               ![t].pc = IF escaped THEN "except"
                                         ELSE IF all_data # <<>> THEN "lock"
                                         ELSE "display"]
    /\ UNCHANGED <<config, offline, monitoring, monitor_thread, data, dicts,
                   data_lock, session, caller, snap>>

(* all_data = self.collect_all_data(); the queries take c; an empty
   all_data goes to the else branch of `if all_data:`. *)
Collect(t, collectTimes, envSet) ==
    /\ threads[t].pc = "collect"
    /\ \E c \in collectTimes, envs \in [1..Len(targets) -> envSet] :
          LET all_data == collect_all_data(targets, envs, now + c)
          IN /\ now' = now + c
             /\ threads' = [threads EXCEPT
                               ![t].cycle_start = now,
                               ![t].took = c,
                               ![t].never_matched = @ \cap Unmatched(targets, envs),
                               ![t].all_data = all_data,
                               ![t].outcomes = Outcomes(targets, envs),
                               ![t].pc = IF all_data # <<>> THEN "lock"
                                         ELSE "display"]
    /\ UNCHANGED <<config, offline, monitoring, monitor_thread, data, dicts,
                   data_lock, session, caller, snap>>

(* with self.data_lock: *)
Acquire(t) ==
    /\ threads[t].pc = "lock"
    /\ data_lock = 0
    /\ data_lock' = t
    /\ threads' = [threads EXCEPT ![t].pc = "append", ![t].k = 1]
    /\ UNCHANGED <<config, offline, monitoring, monitor_thread, data, dicts,
                   session, now, caller, snap>>

(* An append loop that gives up once the flag is cleared *)
AppendStep_abort(t) ==
    /\ threads[t].pc = "append"
    /\ threads[t].k <= Len(threads[t].all_data)
    /\ LET d == threads[t].all_data[threads[t].k]
       IN dicts' = IF monitoring
                   THEN [dicts EXCEPT ![data][d.target] = Append(@, d)]
                   ELSE dicts
    /\ threads' = [threads EXCEPT ![t].k = @ + 1]
    /\ UNCHANGED <<config, offline, monitoring, monitor_thread, data, data_lock,
                   session, now, caller, snap>>

(* An append loop that puts the new sample in front of the list *)
AppendStep_front(t) ==
    /\ threads[t].pc = "append"
    /\ threads[t].k <= Len(threads[t].all_data)
    /\ LET d == threads[t].all_data[threads[t].k]
       IN dicts' = [dicts EXCEPT ![data][d.target] = <<d>> \o @]
    /\ threads' = [threads EXCEPT ![t].k = @ + 1]
    /\ UNCHANGED <<config, offline, monitoring, monitor_thread, data, data_lock,
                   session, now, caller, snap>>

(* self.data[target].append(data), for the k-th item of all_data *)
AppendStep(t) ==
    /\ threads[t].pc = "append"
    /\ threads[t].k <= Len(threads[t].all_data)
    /\ LET d == threads[t].all_data[threads[t].k]
       IN dicts' = [dicts EXCEPT ![data][d.target] = Append(@, d)]
    /\ threads' = [threads EXCEPT ![t].k = @ + 1]
    /\ UNCHANGED <<config, offline, monitoring, monitor_thread, data, data_lock,
                   session, now, caller, snap>>

(* the end of the with block: the lock is released *)
Release(t) ==
    /\ threads[t].pc = "append"
    /\ threads[t].k > Len(threads[t].all_data)
    /\ data_lock' = 0
    /\ threads' = [threads EXCEPT ![t].pc = "display", ![t].k = 0,
                                  ![t].completed = @ + 1]
    /\ UNCHANGED <<config, offline, monitoring, monitor_thread, data, dicts,
                   session, now, caller, snap>>

(* The per-target lines printed after the append (or in the else branch);
   sample_count, which only the footer prints, is not kept. *)
Display(t) ==
    /\ threads[t].pc = "display"
    /\ threads' = [threads EXCEPT ![t].pc = "durcheck", ![t].all_data = <<>>,
                                  ![t].outcomes = <<>>]
    /\ UNCHANGED <<config, offline, monitoring, monitor_thread, data, dicts,
                   data_lock, session, now, caller, snap>>

(* A print of the display raises (stdout closed or broken): control goes to
   `except Exception`. *)
DisplayRaises(t) ==
    /\ threads[t].pc = "display"
    /\ threads' = [threads EXCEPT ![t].pc = "except", ![t].all_data = <<>>,
                                  ![t].outcomes = <<>>, ![t].raised = TRUE]
    /\ UNCHANGED <<config, offline, monitoring, monitor_thread, data, dicts,
                   data_lock, session, now, caller, snap>>

(* The duration check with > in place of >= *)
DurationCheck_strict(t) ==
    /\ threads[t].pc = "durcheck"
    /\ IF /\ threads[t].duration # None
          /\ threads[t].duration # 0
          /\ now - threads[t].start_time > threads[t].duration
       THEN /\ monitoring' = FALSE
            /\ threads' = [threads EXCEPT ![t].pc = "footer",
                                          ![t].exit_by = "duration"]
       ELSE /\ threads' = [threads EXCEPT ![t].pc = "sleep"]
            /\ UNCHANGED monitoring
    /\ UNCHANGED <<config, offline, monitor_thread, data, dicts, data_lock,
                   session, now, caller, snap>>

(* The duration check made on the time the next cycle would start at *)
DurationCheck_early(t) ==
    /\ threads[t].pc = "durcheck"
    /\ IF /\ threads[t].duration # None
          /\ threads[t].duration # 0
          /\ now + threads[t].interval - threads[t].start_time >= threads[t].duration
       THEN /\ monitoring' = FALSE
            /\ threads' = [threads EXCEPT ![t].pc = "footer",
                                          ![t].exit_by = "duration"]
       ELSE /\ threads' = [threads EXCEPT ![t].pc = "sleep"]
            /\ UNCHANGED monitoring
    /\ UNCHANGED <<config, offline, monitor_thread, data, dicts, data_lock,
                   session, now, caller, snap>>

(* A duration check that clears the flag and goes on to the sleep, leaving
   the loop at the next loop test *)
DurationCheck_nobreak(t) ==
    /\ threads[t].pc = "durcheck"
    /\ IF /\ threads[t].duration # None
          /\ threads[t].duration # 0
          /\ now - threads[t].start_time >= threads[t].duration
       THEN /\ monitoring' = FALSE
            /\ threads' = [threads EXCEPT ![t].pc = "sleep",
                                          ![t].exit_by = "duration"]
       ELSE /\ threads' = [threads EXCEPT ![t].pc = "sleep"]
            /\ UNCHANGED monitoring
    /\ UNCHANGED <<config, offline, monitor_thread, data, dicts, data_lock,
                   session, now, caller, snap>>

(* if duration and (time.time() - start_time) >= duration: clear the flag
   and break *)
DurationCheck(t) ==
    /\ threads[t].pc = "durcheck"
    /\ IF /\ threads[t].duration # None
          /\ threads[t].duration # 0
          /\ now - threads[t].start_time >= threads[t].duration
       THEN /\ monitoring' = FALSE
            /\ threads' = [threads EXCEPT ![t].pc = "footer",
                                          ![t].exit_by = "duration"]
       ELSE /\ threads' = [threads EXCEPT ![t].pc = "sleep"]
            /\ UNCHANGED monitoring
    /\ UNCHANGED <<config, offline, monitor_thread, data, dicts, data_lock,
                   session, now, caller, snap>>

(* A sleep that makes up for the time the collection took *)
Sleep_compensated(t) ==
    /\ threads[t].pc = "sleep"
    /\ now' = now + (IF threads[t].interval > threads[t].took
                     THEN threads[t].interval - threads[t].took ELSE 0)
    /\ threads' = [threads EXCEPT ![t].pc = "top"]
    /\ UNCHANGED <<config, offline, monitoring, monitor_thread, data, dicts,
                   data_lock, session, caller, snap>>

(* time.sleep(interval) at the end of the try block *)
Sleep(t) ==
    /\ threads[t].pc = "sleep"
    /\ now' = now + threads[t].interval
    /\ threads' = [threads EXCEPT ![t].pc = "top"]
    /\ UNCHANGED <<config, offline, monitoring, monitor_thread, data, dicts,
                   data_lock, session, caller, snap>>

(* A try block around the whole loop: an exception ends the loop *)
Handler_exit(t) ==
    /\ threads[t].pc = "except"
    /\ now' = now + threads[t].interval
    /\ threads' = [threads EXCEPT ![t].pc = "footer"]
    /\ UNCHANGED <<config, offline, monitoring, monitor_thread, data, dicts,
                   data_lock, session, caller, snap>>

(* except Exception: log, time.sleep(interval), back to the loop test *)
Handler(t) ==
    /\ threads[t].pc = "except"
    /\ now' = now + threads[t].interval
    /\ threads' = [threads EXCEPT ![t].pc = "top"]
    /\ UNCHANGED <<config, offline, monitoring, monitor_thread, data, dicts,
                   data_lock, session, caller, snap>>

(* The lines printed after the loop; then the thread ends. *)
Footer(t) ==
    /\ threads[t].pc = "footer"
    /\ threads' = [threads EXCEPT ![t] =
                      [NoThread EXCEPT !.pc = "done",
                                       !.completed = threads[t].completed,
                                       !.raised = threads[t].raised,
                                       !.exit_by = threads[t].exit_by,
                                       !.never_matched = threads[t].never_matched]]
    /\ UNCHANGED <<config, offline, monitoring, monitor_thread, data, dicts,
                   data_lock, session, now, caller, snap>>

(* The state of the sampler, read off the flag and the thread handle:
   Running while the flag is set, Stopping while it is cleared and the
   thread of self.monitor_thread has not ended, Idle otherwise. *)
SamplerState ==
    IF monitoring THEN "Running"
    ELSE IF monitor_thread # 0 /\ threads[monitor_thread].pc # "done"
         THEN "Stopping"
         ELSE "Idle"

----------------------------------------------------------------------------
(* save_data_to_file and load_data_from_file. One path is modelled: the
   filename both are given (main passes args.save_data / args.load_data). *)

(* The keys save_item and load_item always copy *)
RequiredFields ==
    {"timestamp", "target", "target_name", "pid", "cpu_percent",
     "memory_percent", "memory_mb", "rss_kb", "command", "args"}

(* The keys they copy when the item has them *)
OptionalFields == {"fd_count", "thread_count"}

(* datetime.isoformat(): the text of a time *)
isoformat(ts) == str(ts)

(* datetime.fromisoformat(text) returns; otherwise it raises ValueError *)
IsIsoFormat(text) == AllDigits(text)

(* datetime.fromisoformat(text) *)
fromisoformat(text) == DigitsValue(text)

(* save_item: the base structure, then the optional metrics that exist *)
save_item(item) ==
    [f \in (RequiredFields \cup (OptionalFields \cap DOMAIN item)) |->
        IF f = "timestamp" THEN isoformat(item[f]) ELSE item[f]]

(* The order of self.data.items(): every batch appends in the order of
   self.targets, and a file is read in the order it was written. *)
KeyOrder == <<svc, pid12>>

(* data_to_save: the pairs of the JSON object, in order *)
data_to_save(store) ==
    LET present == SelectSeq(KeyOrder, LAMBDA t : store[t] # <<>>)
    IN [i \in 1..Len(present) |->
           [key |-> present[i],
            items |-> [n \in 1..Len(store[present[i]]) |->
                          save_item(store[present[i]][n])]]]

(* A load_item that reads the optional metrics with a default of 0 *)
load_item_zero_filled(item) ==
    [f \in (RequiredFields \cup OptionalFields) |->
        IF f = "timestamp" THEN fromisoformat(item[f])
        ELSE IF f \in DOMAIN item THEN item[f] ELSE 0]

(* load_item: the base structure, then the optional metrics that exist in
   the loaded data *)
load_item(item) ==
    [f \in (RequiredFields \cup (OptionalFields \cap DOMAIN item)) |->
        IF f = "timestamp" THEN fromisoformat(item[f]) ELSE item[f]]

(* Building load_item raises nothing: no KeyError, no ValueError *)
Loadable(item) ==
    RequiredFields \subseteq DOMAIN item /\ IsIsoFormat(item.timestamp)

(* The (key, item) pairs of a JSON object in the order the two loops of
   load_data_from_file visit them *)
RECURSIVE Visits(_)
Visits(doc) ==
    IF doc = <<>> THEN <<>>
    ELSE [n \in 1..Len(doc[1].items) |->
             [key |-> doc[1].key, item |-> doc[1].items[n]]]
         \o Visits(Tail(doc))

(* The visits made before the first one that raises *)
RECURSIVE LoadedPrefix(_)
LoadedPrefix(visits) ==
    IF visits = <<>> \/ ~Loadable(visits[1].item) THEN <<>>
    ELSE <<visits[1]>> \o LoadedPrefix(Tail(visits))

(* self.data once the visits have been appended to a fresh defaultdict *)
StoreOf(visits) ==
    [t \in TargetUniverse |->
        LET mine == SelectSeq(visits, LAMBDA v : v.key = t)
        IN [n \in 1..Len(mine) |-> load_item(mine[n].item)]]

(* Files that were at the path before the program ran: none; one that is
   not JSON; a JSON array; a JSON object one of whose items lacks 'pid'. *)
GarbageFile == [kind |-> "garbage"]
ArrayFile == [kind |-> "json", shape |-> "array", writer |-> "other"]
GoodItem ==
    [timestamp |-> <<"5">>, target |-> svc, target_name |-> svc, pid |-> 7,
     cpu_percent |-> 2, memory_percent |-> 1, memory_mb |-> 2,
     rss_kb |-> 2048, command |-> svc, args |-> svc \o <<" ", "-", "d">>]
BadItem ==
    [timestamp |-> <<"6">>, target |-> svc, target_name |-> svc,
     cpu_percent |-> 2, memory_percent |-> 1, memory_mb |-> 2,
     rss_kb |-> 2048, command |-> svc, args |-> svc \o <<" ", "-", "d">>]
BrokenFile ==
    [kind |-> "json", shape |-> "object", writer |-> "other",
     doc |-> << [key |-> svc, items |-> <<GoodItem, BadItem>>] >>]
ForeignFiles == {NoFile, GarbageFile, ArrayFile, BrokenFile}

(* save_data_to_file(filename): data_to_save is built under data_lock, the
   file is written after its release. io is how open / json.dump went: an
   open that raises leaves the file as it was, a dump that raises leaves a
   truncated file. Returns filename, and None when anything raised.
   saved remembers the store the file was written from. *)
save_data_to_file ==
    /\ caller.pc = "ready"
    /\ data_lock = 0
    /\ result.n < MaxCalls
    /\ \E io \in {"written", "open_raises", "dump_raises"} :
          /\ file' = CASE io = "written" ->
                            [kind |-> "json", shape |-> "object",
                             writer |-> "save",
                             doc |-> data_to_save(dicts[data]),
                             saved |-> dicts[data]]
                        [] io = "open_raises" -> file
                        [] io = "dump_raises" -> GarbageFile
          /\ result' = [op |-> "save",
                        value |-> IF io = "written" THEN "filename" ELSE "None",
                        failed |-> io # "written",
                        n |-> result.n + 1]
    /\ UNCHANGED <<config, report, probe, monitoring, monitor_thread, data,
                   dicts, data_lock, session, threads, now, caller, snap>>

(* load_data_from_file(filename) when open or json.load raises: the except
   clause returns False before data_lock is asked for. *)
load_data_from_file_unreadable ==
    /\ caller.pc = "ready"
    /\ result.n < MaxCalls
    /\ file.kind \in {"absent", "garbage"}
    /\ result' = [op |-> "load", value |-> "False", failed |-> TRUE,
                  n |-> result.n + 1]
    /\ UNCHANGED <<config, file, report, probe, monitoring, monitor_thread,
                   data, dicts, data_lock, session, threads, now, caller, snap>>

(* load_data_from_file(filename) on a file json.load accepts: under
   data_lock, self.data becomes a fresh defaultdict and the items are
   appended to it one by one; an exception on the way (data.items() of a
   JSON array, a missing key, a timestamp fromisoformat rejects) goes to
   the except clause, which returns False. *)
load_data_from_file ==
    /\ caller.pc = "ready"
    /\ data_lock = 0
    /\ result.n < MaxCalls
    /\ file.kind = "json"
    /\ LET d == FreshDict
           visits == IF file.shape = "object" THEN Visits(file.doc) ELSE <<>>
           loaded == LoadedPrefix(visits)
           raised == file.shape # "object" \/ Len(loaded) < Len(visits)
       IN /\ data' = d
          /\ dicts' = Collected([dicts EXCEPT ![d] = StoreOf(loaded)], d, snap)
          /\ result' = [op |-> "load",
                        value |-> IF raised THEN "False" ELSE "True",
                        failed |-> raised,
                        n |-> result.n + 1]
    /\ UNCHANGED <<config, file, report, probe, monitoring, monitor_thread,
                   data_lock, session, threads, now, caller, snap>>

----------------------------------------------------------------------------
(* PerformanceReportTemplate.load_data and analyze_data. The values of a
   sample are whole numbers; a statistic, which the code rounds to two
   decimals, is kept in hundredths. *)

(* item.get(key, 0) *)
Get(item, key) == IF key \in DOMAIN item THEN item[key] ELSE 0

(* [item.get(key, 0) for item in process_data]; for the basic metrics,
   which every item has, it is [item[key] for item in process_data] *)
Column(process_data, key) ==
    [i \in 1..Len(process_data) |-> Get(process_data[i], key)]

(* any(values): some value is truthy, that is, not 0 *)
any(values) == \E i \in 1..Len(values) : values[i] # 0

RECURSIVE sum(_)
sum(values) == IF values = <<>> THEN 0 ELSE values[1] + sum(Tail(values))

max(values) ==
    CHOOSE v \in {values[i] : i \in 1..Len(values)} :
        \A i \in 1..Len(values) : v >= values[i]

min(values) ==
    CHOOSE v \in {values[i] : i \in 1..Len(values)} :
        \A i \in 1..Len(values) : v <= values[i]

(* A rounding that cuts the digits after the second decimal *)
round2_cut(num, den) == (100 * num) \div den

(* round(num / den, 2), in hundredths: the nearest hundredth. With whole
   values and fewer than eight of them, num / den is never half-way
   between two hundredths. *)
round2(num, den) == (200 * num + den) \div (2 * den)

(* round(statistics.mean(values), 2) *)
mean(values) == round2(sum(values), Len(values))

(* A deviation taken from 0 in place of the mean *)
stdev_uncentred(values) ==
    LET n == Len(values)
        a == sum([i \in 1..n |-> values[i] * values[i]])
        b == n - 1
    IN CHOOSE r \in 0..MaxStd :
          /\ 40000 * a < (2 * r + 1) * (2 * r + 1) * b
          /\ r > 0 => 40000 * a >= (2 * r - 1) * (2 * r - 1) * b

(* round(statistics.stdev(values), 2) for two values or more: the square
   root of sum((x - mean)^2) / (n - 1), which is a / b below, as the
   nearest hundredth r: (r - 1/2)^2 <= 10000 a / b < (r + 1/2)^2. *)
stdev(values) ==
    LET n == Len(values)
        a == n * sum([i \in 1..n |-> values[i] * values[i]])
               - sum(values) * sum(values)
        b == n * (n - 1)
    IN CHOOSE r \in 0..MaxStd :
          /\ 40000 * a < (2 * r + 1) * (2 * r + 1) * b
          /\ r > 0 => 40000 * a >= (2 * r - 1) * (2 * r - 1) * b

(* {'avg': ..., 'max': ..., 'min': ..., 'std': ..., 'data': ...} *)
Stats(values) ==
    [avg |-> mean(values),
     max |-> 100 * max(values),
     min |-> 100 * min(values),
     std |-> IF Len(values) > 1 THEN stdev(values) ELSE 0,
     data |-> values]

(* An analysis that has the thread-count group whenever a sample has the
   key, zero or not *)
analysis_by_key(process_name, process_data) ==
    LET col(key) == Column(process_data, key)
    IN [process_name |-> process_name,
        pid |-> process_data[1].pid,
        command |-> process_data[1].command,
        args |-> process_data[1].args,
        data_points |-> Len(process_data),
        test_duration |-> fromisoformat(process_data[Len(process_data)].timestamp)
                            - fromisoformat(process_data[1].timestamp),
        cpu |-> Stats(col("cpu_percent")),
        memory_percent |-> Stats(col("memory_percent")),
        memory_mb |-> Stats(col("memory_mb")),
        rss_kb |-> process_data[1].rss_kb]
       @@ (IF any(col("disk_read_bytes")) \/ any(col("disk_write_bytes"))
           THEN [disk_io |-> [read_bytes |-> Stats(col("disk_read_bytes")),
                              write_bytes |-> Stats(col("disk_write_bytes"))]]
           ELSE <<>>)
       @@ (IF any(col("network_rx_bytes")) \/ any(col("network_tx_bytes"))
           THEN [network_io |-> [rx_bytes |-> Stats(col("network_rx_bytes")),
                                 tx_bytes |-> Stats(col("network_tx_bytes"))]]
           ELSE <<>>)
       @@ (IF any(col("voluntary_switches")) \/ any(col("involuntary_switches"))
           THEN [context_switches |->
                    [voluntary |-> Stats(col("voluntary_switches")),
                     involuntary |-> Stats(col("involuntary_switches"))]]
           ELSE <<>>)
       @@ (IF \E i \in 1..Len(process_data) :
                  "thread_count" \in DOMAIN process_data[i]
           THEN [thread_count |-> Stats(col("thread_count"))]
           ELSE <<>>)

(* An analysis that reports the process of the last sample of the series *)
analysis_last(process_name, process_data) ==
    LET col(key) == Column(process_data, key)
    IN [process_name |-> process_name,
        pid |-> process_data[Len(process_data)].pid,
        command |-> process_data[Len(process_data)].command,
        args |-> process_data[Len(process_data)].args,
        data_points |-> Len(process_data),
        test_duration |-> fromisoformat(process_data[Len(process_data)].timestamp)
                            - fromisoformat(process_data[1].timestamp),
        cpu |-> Stats(col("cpu_percent")),
        memory_percent |-> Stats(col("memory_percent")),
        memory_mb |-> Stats(col("memory_mb")),
        rss_kb |-> process_data[1].rss_kb]
       @@ (IF any(col("disk_read_bytes")) \/ any(col("disk_write_bytes"))
           THEN [disk_io |-> [read_bytes |-> Stats(col("disk_read_bytes")),
                              write_bytes |-> Stats(col("disk_write_bytes"))]]
           ELSE <<>>)
       @@ (IF any(col("network_rx_bytes")) \/ any(col("network_tx_bytes"))
           THEN [network_io |-> [rx_bytes |-> Stats(col("network_rx_bytes")),
                                 tx_bytes |-> Stats(col("network_tx_bytes"))]]
           ELSE <<>>)
       @@ (IF any(col("voluntary_switches")) \/ any(col("involuntary_switches"))
           THEN [context_switches |->
                    [voluntary |-> Stats(col("voluntary_switches")),
                     involuntary |-> Stats(col("involuntary_switches"))]]
           ELSE <<>>)
       @@ (IF any(col("thread_count"))
           THEN [thread_count |-> Stats(col("thread_count"))]
           ELSE <<>>)

(* The analysis dict analyze_data builds for one non-empty series, with the
   optional groups it adds *)
analysis(process_name, process_data) ==
    LET col(key) == Column(process_data, key)
    IN [process_name |-> process_name,
        pid |-> process_data[1].pid,
        command |-> process_data[1].command,
        args |-> process_data[1].args,
        data_points |-> Len(process_data),
        test_duration |-> fromisoformat(process_data[Len(process_data)].timestamp)
                            - fromisoformat(process_data[1].timestamp),
        cpu |-> Stats(col("cpu_percent")),
        memory_percent |-> Stats(col("memory_percent")),
        memory_mb |-> Stats(col("memory_mb")),
        rss_kb |-> process_data[1].rss_kb]
       @@ (IF any(col("disk_read_bytes")) \/ any(col("disk_write_bytes"))
           THEN [disk_io |-> [read_bytes |-> Stats(col("disk_read_bytes")),
                              write_bytes |-> Stats(col("disk_write_bytes"))]]
           ELSE <<>>)
       @@ (IF any(col("network_rx_bytes")) \/ any(col("network_tx_bytes"))
           THEN [network_io |-> [rx_bytes |-> Stats(col("network_rx_bytes")),
                                 tx_bytes |-> Stats(col("network_tx_bytes"))]]
           ELSE <<>>)
       @@ (IF any(col("voluntary_switches")) \/ any(col("involuntary_switches"))
           THEN [context_switches |->
                    [voluntary |-> Stats(col("voluntary_switches")),
                     involuntary |-> Stats(col("involuntary_switches"))]]
           ELSE <<>>)
       @@ (IF any(col("thread_count"))
           THEN [thread_count |-> Stats(col("thread_count"))]
           ELSE <<>>)

(* The items of the JSON object under a key *)
ItemsOf(doc, key) ==
    LET at == {i \in 1..Len(doc) : doc[i].key = key}
    IN IF at = {} THEN <<>> ELSE doc[CHOOSE i \in at : TRUE].items

(* analyze_data runs through: self.data is a JSON object every item of
   which has the keys it reads and a timestamp fromisoformat accepts.
   (On anything else it raises; it has no try block.) *)
Analyzable(loaded) ==
    /\ loaded.kind = "json" /\ loaded.shape = "object"
    /\ \A v \in {Visits(loaded.doc)[i] : i \in 1..Len(Visits(loaded.doc))} :
          Loadable(v.item)

(* load_data(data_file): self.data = json.load(f) and True, or False when
   open or json.load raises. main makes the report in a run that does no
   monitoring, so the sampler is idle. *)
load_data ==
    /\ caller.pc = "ready"
    /\ SamplerState = "Idle"
    /\ IF file.kind = "json"
       THEN /\ report' = [report EXCEPT !.data = file]
            /\ result' = [op |-> "load_data", value |-> "True",
                          failed |-> FALSE, n |-> result.n]
       ELSE /\ report' = report
            /\ result' = [op |-> "load_data", value |-> "False",
                          failed |-> TRUE, n |-> result.n]
    /\ UNCHANGED <<config, file, probe, monitoring, monitor_thread, data,
                   dicts, data_lock, session, threads, now, caller, snap>>

(* analyze_data(): False when self.data is None or empty; otherwise
   report_data gets the analysis of every non-empty series, and True.
   analyzed remembers the data the report was made from. *)
analyze_data ==
    /\ caller.pc = "ready"
    /\ SamplerState = "Idle"
    /\ IF report.data.kind # "json" \/ (report.data.shape = "object"
                                         /\ report.data.doc = <<>>)
       THEN /\ report' = report
            /\ result' = [op |-> "analyze_data", value |-> "False",
                          failed |-> FALSE, n |-> result.n]
       ELSE /\ Analyzable(report.data)
            /\ LET doc == report.data.doc
                   names == {doc[i].key : i \in {j \in 1..Len(doc) :
                                                    doc[j].items # <<>>}}
               IN report' = [report EXCEPT
                                !.report_data =
                                    [name \in names |->
                                        analysis(name, ItemsOf(doc, name))],
                                !.analyzed = doc]
            /\ result' = [op |-> "analyze_data", value |-> "True",
                          failed |-> FALSE, n |-> result.n]
    /\ UNCHANGED <<config, file, probe, monitoring, monitor_thread, data,
                   dicts, data_lock, session, threads, now, caller, snap>>

(* The data files given to the report: one series of up to MaxSeries
   samples, each with its own values and its own optional keys; the last
   item is a sample of another process found under the same name. *)
PlainItem == [GoodItem EXCEPT !.cpu_percent = 1]
AnalysisItems ==
    {PlainItem,
     GoodItem,
     [GoodItem EXCEPT !.cpu_percent = 5, !.memory_mb = 3, !.timestamp = <<"9">>],
     PlainItem @@ [thread_count |-> 0],
     GoodItem @@ [thread_count |-> 3, fd_count |-> 4],
     PlainItem @@ [disk_write_bytes |-> 5],
     PlainItem @@ [network_rx_bytes |-> 0, network_tx_bytes |-> 0],
     GoodItem @@ [voluntary_switches |-> 0, involuntary_switches |-> 2],
     [GoodItem EXCEPT !.pid = 8, !.command = <<"s", "v">>,
                      !.args = <<"s", "v", " ", "-", "x">>]}

SeriesOfLength(n) == [1..n -> AnalysisItems]

AnalysisFiles ==
    {NoFile,
     [kind |-> "json", shape |-> "object", writer |-> "other", doc |-> <<>>]}
    \cup {[kind |-> "json", shape |-> "object", writer |-> "other",
           doc |-> << [key |-> svc, items |-> items] >>] :
             items \in UNION {SeriesOfLength(n) : n \in 1..MaxSeries}}

----------------------------------------------------------------------------
(* find_process_by_name and verify_process_executable *)

foo == <<"f", "o", "o">>
Foo == <<"F", "o", "o">>
foobar == <<"f", "o", "o", "b", "a", "r">>
bin_foo == <<"/", "b", "/", "f", "o", "o">>
bin_Foo == <<"/", "b", "/", "F", "o", "o">>
win_foo == <<"b", "\\", "f", "o", "o">>

(* str.lower(), on the letters that occur *)
LowerChar(c) ==
    CASE c = "F" -> "f" [] c = "O" -> "o" [] c = "B" -> "b"
      [] c = "A" -> "a" [] c = "R" -> "r" [] OTHER -> c

lower(str_) == [i \in 1..Len(str_) |-> LowerChar(str_[i])]

Blank == {" ", "\n", "\t"}

(* str.strip() *)
RECURSIVE strip(_)
strip(str_) ==
    IF str_ # <<>> /\ str_[1] \in Blank THEN strip(Tail(str_))
    ELSE IF str_ # <<>> /\ str_[Len(str_)] \in Blank
    THEN strip(SubSeq(str_, 1, Len(str_) - 1))
    ELSE str_

(* str.endswith(suffix) *)
endswith(str_, suffix) ==
    /\ Len(suffix) <= Len(str_)
    /\ SubSeq(str_, Len(str_) - Len(suffix) + 1, Len(str_)) = suffix

(* What `ps -p pid -o comm=` answers: ok is returncode == 0 with no
   exception and no timeout, stdout the text it printed. *)
PsFails == [ok |-> FALSE, stdout |-> <<>>]
PsPrints(comm) == [ok |-> TRUE, stdout |-> comm \o <<"\n">>]
PsAnswers ==
    {PsFails} \cup {PsPrints(c) : c \in {foo, Foo, foobar, bin_foo, bin_Foo, win_foo}}

(* verify_process_executable that takes a command beginning with the name *)
verify_process_executable_prefix(ps, process_name) ==
    IF ps.ok /\ strip(ps.stdout) # <<>>
    THEN LET comm == strip(ps.stdout)
         IN \/ lower(comm) = lower(process_name)
            \/ /\ Len(comm) >= Len(process_name)
               /\ SubSeq(comm, 1, Len(process_name)) = process_name
    ELSE FALSE

(* verify_process_executable(pid, process_name), ps being what the system
   answers for pid *)
verify_process_executable(ps, process_name) ==
    IF ps.ok /\ strip(ps.stdout) # <<>>
    THEN LET comm == strip(ps.stdout)
         IN \/ lower(comm) = lower(process_name)
            \/ endswith(comm, <<"/">> \o process_name)
            \/ endswith(comm, <<"\\">> \o process_name)
    ELSE FALSE

(* What a pgrep call answers: "timeout" is subprocess.TimeoutExpired,
   "error" any other exception, "ok" a return with returncode and stdout
   (lines is stdout.strip().split('\n'), empty for an empty stdout). *)
PgrepAnswers ==
    {[kind |-> "timeout", returncode |-> 0, lines |-> <<>>],
     [kind |-> "error", returncode |-> 0, lines |-> <<>>],
     [kind |-> "ok", returncode |-> 1, lines |-> <<>>],
     [kind |-> "ok", returncode |-> 0, lines |-> << <<"7">> >>],
     [kind |-> "ok", returncode |-> 0, lines |-> << <<"7">>, <<"8">> >>],
     [kind |-> "ok", returncode |-> 0, lines |-> << <<"x">>, <<"8">> >>]}

ProbePids == {7, 8}

(* The find_process_by_name(process_name) calls modelled: the name, what
   `pgrep -x` and `pgrep -f` answer, and what ps answers for each PID. *)
Probes ==
    [pc : {"call"}, process_name : {foo, Foo},
     exact : PgrepAnswers, prefix : PgrepAnswers,
     ps : [ProbePids -> PsAnswers],
     pids : {<<>>}, k : {0}, valid_pids : {<<>>}, path : {"none"},
     queries : {<<>>}, checked : {{}}, returned : {<<>>}]

(* subprocess.run(['pgrep', '-x', process_name], ...) and the test of its
   result *)
ExactQuery ==
    /\ probe.pc = "call"
    /\ probe' =
          LET p == [probe EXCEPT !.queries = Append(@, "exact")]
          IN IF probe.exact.kind # "ok"
             THEN [p EXCEPT !.pc = "returned", !.returned = <<>>]
             ELSE IF probe.exact.returncode = 0 /\ probe.exact.lines # <<>>
             THEN [p EXCEPT !.pc = "verify", !.path = "exact",
                            !.pids = probe.exact.lines, !.k = 1,
                            !.valid_pids = <<>>]
             ELSE [p EXCEPT !.pc = "prefix"]
    /\ UNCHANGED <<config, file, result, report, monitoring, monitor_thread,
                   data, dicts, data_lock, session, threads, now, caller, snap>>

(* subprocess.run(['pgrep', '-f', f'^{process_name}'], ...) and the test of
   its result *)
PrefixQuery ==
    /\ probe.pc = "prefix"
    /\ probe' =
          LET p == [probe EXCEPT !.queries = Append(@, "prefix")]
          IN IF probe.prefix.kind # "ok"
             THEN [p EXCEPT !.pc = "returned", !.returned = <<>>]
             ELSE IF probe.prefix.returncode = 0 /\ probe.prefix.lines # <<>>
             THEN [p EXCEPT !.pc = "verify", !.path = "prefix",
                            !.pids = probe.prefix.lines, !.k = 1,
                            !.valid_pids = <<>>]
             ELSE [p EXCEPT !.pc = "returned", !.returned = <<>>]
    /\ UNCHANGED <<config, file, result, report, monitoring, monitor_thread,
                   data, dicts, data_lock, session, threads, now, caller, snap>>

(* The loop body without the verification on the prefix path *)
VerifyCandidate_trusting ==
    /\ probe.pc = "verify"
    /\ probe.k <= Len(probe.pids)
    /\ LET pid == probe.pids[probe.k]
       IN probe' =
             IF AllDigits(pid)
             THEN LET ok == verify_process_executable(probe.ps[int(pid)],
                                                      probe.process_name)
                  IN [probe EXCEPT
                         !.k = @ + 1,
                         !.checked = @ \cup {[pid |-> int(pid), ok |-> ok]},
                         !.valid_pids = IF ok \/ probe.path = "prefix"
                                        THEN Append(@, int(pid)) ELSE @]
             ELSE [probe EXCEPT !.k = @ + 1]
    /\ UNCHANGED <<config, file, result, report, monitoring, monitor_thread,
                   data, dicts, data_lock, session, threads, now, caller, snap>>

(* for pid in pids: if pid.isdigit(): if self.verify_process_executable(
   int(pid), process_name): valid_pids.append(int(pid)); checked records
   what each verification answered. *)
VerifyCandidate ==
    /\ probe.pc = "verify"
    /\ probe.k <= Len(probe.pids)
    /\ LET pid == probe.pids[probe.k]
       IN probe' =
             IF AllDigits(pid)
             THEN LET ok == verify_process_executable(probe.ps[int(pid)],
                                                      probe.process_name)
                  IN [probe EXCEPT
                         !.k = @ + 1,
                         !.checked = @ \cup {[pid |-> int(pid), ok |-> ok]},
                         !.valid_pids = IF ok THEN Append(@, int(pid)) ELSE @]
             ELSE [probe EXCEPT !.k = @ + 1]
    /\ UNCHANGED <<config, file, result, report, monitoring, monitor_thread,
                   data, dicts, data_lock, session, threads, now, caller, snap>>

(* A return that goes on to the prefix query when the exact one was
   answered, and adds what it finds *)
ReturnValid_both ==
    /\ probe.pc = "verify"
    /\ probe.k > Len(probe.pids)
    /\ probe' =
          IF probe.path = "exact" /\ probe.prefix.kind = "ok"
          THEN [probe EXCEPT !.pc = "verify", !.path = "prefix",
                             !.queries = Append(@, "prefix"),
                             !.pids = probe.prefix.lines, !.k = 1]
          ELSE [probe EXCEPT !.pc = "returned", !.returned = probe.valid_pids]
    /\ UNCHANGED <<config, file, result, report, monitoring, monitor_thread,
                   data, dicts, data_lock, session, threads, now, caller, snap>>

(* return valid_pids *)
ReturnValid ==
    /\ probe.pc = "verify"
    /\ probe.k > Len(probe.pids)
    /\ probe' = [probe EXCEPT !.pc = "returned", !.returned = probe.valid_pids]
    /\ UNCHANGED <<config, file, result, report, monitoring, monitor_thread,
                   data, dicts, data_lock, session, threads, now, caller, snap>>

----------------------------------------------------------------------------
(* Specifications *)

(* One step of the program, with the inputs drawn from P *)
NextWith(P) ==
    \/ \E i \in P.intervals, d \in P.durations :
          start_monitoring(i, d, P.maxSessions)
    \/ stop_monitoring
    \/ stop_monitoring_join
    \/ get_data
    \/ \E t \in ThreadIds :
          \/ LoopBegin(t)
          \/ LoopTest(t, P.maxIters)
          \/ Collect(t, P.collectTimes, P.envs)
          \/ Acquire(t)
          \/ AppendStep(t)
          \/ Release(t)
          \/ Display(t)
          \/ DisplayRaises(t)
          \/ DurationCheck(t)
          \/ Sleep(t)
          \/ Handler(t)
          \/ Footer(t)

(* One monitoring session, as main() runs it: every answer of the system,
   with and without a duration. *)
Next ==
    NextWith([intervals |-> {1}, durations |-> {None, 0, 1},
              collectTimes |-> {0}, envs |-> Envs,
              maxSessions |-> 1, maxIters |-> MaxIters])

Spec == Init /\ [][Next]_vars

(* One session under every interval, duration and collection time *)
NextTiming ==
    NextWith([intervals |-> Intervals, durations |-> Durations,
              collectTimes |-> CollectTimes, envs |-> LiveEnvs,
              maxSessions |-> 1, maxIters |-> TimingIters])

SpecTiming == Init /\ [][NextTiming]_vars

(* The scenario start_monitoring(interval=3, duration=10) *)
NextScenario ==
    NextWith([intervals |-> {3}, durations |-> {10},
              collectTimes |-> CollectTimes, envs |-> LiveEnvs,
              maxSessions |-> 1, maxIters |-> LongIters])

SpecScenario == Init /\ [][NextScenario]_vars

(* Several sessions of one ProcessMonitor, one after the other *)
NextSessions ==
    NextWith([intervals |-> {1}, durations |-> {None, 1},
              collectTimes |-> {0}, envs |-> LiveEnvs,
              maxSessions |-> MaxSessions, maxIters |-> SessionIters])

SpecSessions == Init /\ [][NextSessions]_vars

(* The name matches no process *)
UnresolvedEnv == [raises |-> FALSE, pids |-> <<>>, info |-> NoInfo]

(* One session, with and without the optional metrics, and
   save_data_to_file / load_data_from_file called at any time, on a path
   where a foreign file may lie *)
InitPersist ==
    InitOf([targets |-> {<<svc, pid12>>},
            monitor_configs |-> {DefaultConfig, AllMetrics},
            files |-> ForeignFiles, probes |-> {NoProbe}])

NextPersist ==
    \/ NextWith([intervals |-> {1}, durations |-> {None},
                 collectTimes |-> {0}, envs |-> LiveEnvs,
                 maxSessions |-> 1, maxIters |-> PersistIters])
    \/ save_data_to_file
    \/ load_data_from_file_unreadable
    \/ load_data_from_file

SpecPersist == InitPersist /\ [][NextPersist]_vars

(* One session on a system where the name may match no process, saved and
   then analysed by a report template *)
InitReport ==
    InitOf([targets |-> {<<svc, pid12>>}, monitor_configs |-> {DefaultConfig},
            files |-> {NoFile}, probes |-> {NoProbe}])

(* main with --monitor (start, the loop, stop, save), then main with
   --data-file (load_data, analyze_data); get_data is not called. *)
NextReport ==
    \/ start_monitoring(1, None, 1)
    \/ stop_monitoring
    \/ stop_monitoring_join
    \/ \E t \in ThreadIds :
          \/ LoopBegin(t)
          \/ LoopTest(t, ReportIters)
          \/ Collect(t, {0}, LiveEnvs \cup {UnresolvedEnv})
          \/ Acquire(t)
          \/ AppendStep(t)
          \/ Release(t)
          \/ Display(t)
          \/ DisplayRaises(t)
          \/ DurationCheck(t)
          \/ Sleep(t)
          \/ Handler(t)
          \/ Footer(t)
    \/ save_data_to_file
    \/ load_data
    \/ analyze_data

SpecReport == InitReport /\ [][NextReport]_vars

(* load_data and analyze_data on every data file of AnalysisFiles *)
InitAnalysis ==
    InitOf([targets |-> {<<>>}, monitor_configs |-> {DefaultConfig},
            files |-> AnalysisFiles, probes |-> {NoProbe}])

NextAnalysis ==
    \/ load_data
    \/ analyze_data

SpecAnalysis == InitAnalysis /\ [][NextAnalysis]_vars

(* One find_process_by_name call under every answer of pgrep and ps *)
InitResolve ==
    InitOf([targets |-> {<<>>}, monitor_configs |-> {DefaultConfig},
            files |-> {NoFile}, probes |-> Probes])

NextResolve ==
    \/ ExactQuery
    \/ PrefixQuery
    \/ VerifyCandidate
    \/ ReturnValid

SpecResolve == InitResolve /\ [][NextResolve]_vars

(* Every choice of the two optional metrics main can build from
   --enable-file-descriptors and --enable-thread-count *)
MetricConfigs == [file_descriptors : BOOLEAN, thread_count : BOOLEAN]

(* The candidate PID gave no process info; an exception escaped *)
GoneEnv == [raises |-> FALSE, pids |-> <<7>>, info |-> NoInfo]
RaisingEnv == [raises |-> TRUE, pids |-> <<>>, info |-> NoInfo]

(* One session under every choice of the optional metrics, on a system
   where a target may be live, unmatched, gone or the cause of an exception *)
InitMetrics ==
    InitOf([targets |-> {<<svc, pid12>>}, monitor_configs |-> MetricConfigs,
            files |-> {NoFile}, probes |-> {NoProbe}])

NextMetrics ==
    \/ start_monitoring(1, None, 1)
    \/ stop_monitoring
    \/ stop_monitoring_join
    \/ \E t \in ThreadIds :
          \/ LoopBegin(t)
          \/ LoopTest(t, MetricIters)
          \/ Collect(t, {0}, LiveEnvs \cup {UnresolvedEnv, GoneEnv, RaisingEnv})
          \/ Acquire(t)
          \/ AppendStep(t)
          \/ Release(t)
          \/ Display(t)
          \/ DisplayRaises(t)
          \/ DurationCheck(t)
          \/ Sleep(t)
          \/ Handler(t)
          \/ Footer(t)

SpecMetrics == InitMetrics /\ [][NextMetrics]_vars

(* A data file of another run that load_data_from_file accepts *)
LoadableFile ==
    [kind |-> "json", shape |-> "object", writer |-> "other",
     doc |-> << [key |-> svc, items |-> <<GoodItem>>] >>]

(* Sessions of one ProcessMonitor one after the other, with
   load_data_from_file called while the sampler is idle (main loads before
   it monitors) *)
InitRestart ==
    InitOf([targets |-> {<<svc, pid12>>}, monitor_configs |-> {DefaultConfig},
            files |-> {LoadableFile}, probes |-> {NoProbe}])

NextRestart ==
    \/ \E d \in {None, 1} : start_monitoring(1, d, MaxSessions)
    \/ stop_monitoring
    \/ stop_monitoring_join
    \/ \E t \in ThreadIds :
          \/ LoopBegin(t)
          \/ LoopTest(t, RestartIters)
          \/ Collect(t, {0}, LiveEnvs)
          \/ Acquire(t)
          \/ AppendStep(t)
          \/ Release(t)
          \/ Display(t)
          \/ DisplayRaises(t)
          \/ DurationCheck(t)
          \/ Sleep(t)
          \/ Handler(t)
          \/ Footer(t)
    \/ (SamplerState = "Idle" /\ load_data_from_file)

SpecRestart == InitRestart /\ [][NextRestart]_vars

----------------------------------------------------------------------------
(* main() in monitoring mode (--monitor). The caller is the main thread;
   beside "ready" and "join" its position may be "finally" (the finally
   clause of main is reached), "finally_join" (the join of the
   stop_monitoring call made there) and "exit" (main is over). *)

(* SIGINT or SIGTERM arrives while the main thread is in the try block of
   main: signal_handler calls sys.exit(0), and the SystemExit it raises is
   caught neither by `except KeyboardInterrupt` nor by `except Exception`,
   so control passes to the finally clause. *)
signal_handler ==
    /\ caller.pc \in {"ready", "join"}
    /\ session.started > 0
    /\ caller' = [caller EXCEPT !.pc = "finally"]
    /\ UNCHANGED <<config, offline, monitoring, monitor_thread, data, dicts,
                   data_lock, session, threads, now, snap>>

(* The try block of main runs to its end after print_summary (no
   visualization and no report asked for) *)
main_try_end ==
    /\ caller.pc = "ready"
    /\ result.op = "save"
    /\ snap.valid
    /\ caller' = [caller EXCEPT !.pc = "finally"]
    /\ UNCHANGED <<config, offline, monitoring, monitor_thread, data, dicts,
                   data_lock, session, threads, now, snap>>

(* finally: monitor.stop_monitoring(), up to the join *)
main_finally ==
    /\ caller.pc = "finally"
    /\ monitoring' = FALSE
    /\ caller' = IF monitor_thread # 0
                 THEN [caller EXCEPT !.pc = "finally_join"]
                 ELSE [pc |-> "exit", stopped |-> TRUE]
    /\ UNCHANGED <<config, offline, monitor_thread, data, dicts, data_lock,
                   session, threads, now, snap>>

(* the join of that call returns, and main is over: it returns, or the
   SystemExit goes on to end the program *)
main_finally_join ==
    /\ caller.pc = "finally_join"
    /\ threads[monitor_thread].pc = "done"
    /\ caller' = [pc |-> "exit", stopped |-> TRUE]
    /\ UNCHANGED <<config, offline, monitoring, monitor_thread, data, dicts,
                   data_lock, session, threads, now, snap>>

InitMain ==
    InitOf([targets |-> {<<svc, pid12>>}, monitor_configs |-> {DefaultConfig},
            files |-> {NoFile}, probes |-> {NoProbe}])

(* The statements of main in their order: start_monitoring; the wait
   `while monitor.monitoring: time.sleep(1)`, left once the flag is read
   cleared; stop_monitoring; save_data_to_file; print_summary, which reads
   get_data(); the finally clause. A signal may arrive at any of them. *)
NextMain ==
    \/ (session.started = 0 /\ \E d \in {None, 1} : start_monitoring(1, d, 1))
    \/ (session.started = 1 /\ ~monitoring /\ ~caller.stopped /\ stop_monitoring)
    \/ stop_monitoring_join
    \/ (caller.stopped /\ result.n = 0 /\ save_data_to_file)
    \/ (result.op = "save" /\ ~snap.valid /\ get_data)
    \/ main_try_end
    \/ signal_handler
    \/ main_finally
    \/ main_finally_join
    \/ \E t \in ThreadIds :
          \/ LoopBegin(t)
          \/ LoopTest(t, MainIters)
          \/ Collect(t, {0}, LiveEnvs)
          \/ Acquire(t)
          \/ AppendStep(t)
          \/ Release(t)
          \/ Display(t)
          \/ DisplayRaises(t)
          \/ DurationCheck(t)
          \/ Sleep(t)
          \/ Handler(t)
          \/ Footer(t)

SpecMain == InitMain /\ [][NextMain]_vars

----------------------------------------------------------------------------
(* Properties *)

Configured == {targets[i] : i \in 1..Len(targets)}

(* The series of target t in the store *)
Series(t) == dicts[data][t]

Last(q) == q[Len(q)]

(* The thread of the current session *)
CurrentThread == threads[monitor_thread]

(* The cycles completed in the current session: those whose batch the
   session's thread has appended. *)
CompletedCycles == IF monitor_thread = 0 THEN 0 ELSE CurrentThread.completed

(* C1: whenever no append is under way, every configured target's series
   holds exactly as many samples as cycles have completed in the session,
   whatever the outcome of each collection was. *)
C1_EqualSeriesLengths ==
    data_lock = 0 => \A t \in Configured : Len(Series(t)) = CompletedCycles

(* Two cycles are complete, one of them with a failed collection *)
C1_Witness ==
    /\ data_lock = 0
    /\ monitor_thread # 0
    /\ CurrentThread.completed = 2
    /\ Len(Series(svc)) = 2 /\ Len(Series(pid12)) = 2
    /\ Series(svc)[1].command = <<>> /\ Series(svc)[2].command # <<>>

(* C2: the series of the mapping get_data returns all have the same length
   at the moment it returns, while the thread may be anywhere in its loop. *)
C2_NoPartialCycle ==
    snap.valid => \A t1, t2 \in Configured : snap.lens[t1] = snap.lens[t2]

(* get_data returned between two cycles of a running thread, which now
   waits for the lock to write the second *)
C2_Witness ==
    /\ snap.valid /\ snap.id = data
    /\ snap.lens[svc] = 1 /\ snap.lens[pid12] = 1
    /\ monitoring
    /\ monitor_thread # 0 /\ CurrentThread.pc = "lock"
    /\ CurrentThread.completed = 1

(* C3: the mapping get_data returned is a copy the store does not reach:
   whenever the caller looks, each of its series is as long as it was when
   get_data returned. *)
C3_DefensiveCopy ==
    snap.valid => \A t \in TargetUniverse : Len(SnapSeries(t)) = snap.lens[t]

ZeroMetrics(d) ==
    /\ d.cpu_percent = 0 /\ d.memory_percent = 0 /\ d.memory_mb = 0
    /\ d.rss_kb = 0 /\ d.command = <<>>

(* The batch of thread t is in the store: the last sample of each series *)
BatchAppended(t) ==
    \A n \in 1..Len(threads[t].all_data) :
        LET d == threads[t].all_data[n]
        IN Series(d.target) # <<>> /\ Last(Series(d.target)) = d

(* C4 as claimed: every sample of a batch whose collection failed carries
   its target, PID 0 and zero metrics, and is the sample appended. *)
C4_ZeroSamplePidZero ==
    \A t \in ThreadIds :
        /\ \A n \in 1..Len(threads[t].all_data) :
              threads[t].outcomes[n].kind # "live" =>
                  LET d == threads[t].all_data[n]
                  IN /\ d.target = DictKeys(targets)[n][1]
                     /\ d.pid = 0
                     /\ ZeroMetrics(d)
        /\ threads[t].pc = "display" => BatchAppended(t)

(* C4, amended: every sample of a batch whose collection failed carries its
   target and zero metrics; its PID is 0 when no PID was queried (the name
   matched nothing, or an exception escaped) and the queried PID otherwise;
   and it is the sample appended. *)
C4_ZeroSample ==
    \A t \in ThreadIds :
        /\ \A n \in 1..Len(threads[t].all_data) :
              threads[t].outcomes[n].kind # "live" =>
                  LET d == threads[t].all_data[n]
                      o == threads[t].outcomes[n]
                  IN /\ d.target = DictKeys(targets)[n][1]
                     /\ d.pid = IF o.candidate = None THEN 0 ELSE o.candidate
                     /\ ZeroMetrics(d)
        /\ threads[t].pc = "display" => BatchAppended(t)

(* A batch is appended in which the name resolved to a PID that gave no
   process info, the numeric PID was not alive, and both samples carry
   that PID. *)
C4_Witness ==
    \E t \in ThreadIds :
        /\ threads[t].pc = "display"
        /\ Len(threads[t].all_data) = 2
        /\ threads[t].outcomes[1].kind = "gone"
        /\ threads[t].outcomes[2].kind = "gone"
        /\ Last(Series(svc)).pid = 7
        /\ Last(Series(pid12)).pid = 12
        /\ ZeroMetrics(Last(Series(svc)))

Elapsed(t) == now - threads[t].start_time

(* C5 as claimed: a thread given a duration, 0 included, never goes on to
   sleep once that much time has elapsed, whether the iteration ran through
   or raised. *)
C5_LeavesOnceElapsed ==
    \A t \in ThreadIds :
        (threads[t].pc \in {"sleep", "except"} /\ threads[t].duration # None)
            => Elapsed(t) < threads[t].duration

(* C5, amended: a thread given a positive duration never goes on to the
   sleep that follows the duration check once that much time has elapsed,
   and a thread that left the loop by the duration check did so with a
   positive duration elapsed. *)
C5_LeavesAtCheck ==
    \A t \in ThreadIds :
        /\ (threads[t].pc = "sleep" /\ threads[t].duration \notin {None, 0})
              => Elapsed(t) < threads[t].duration
        /\ (threads[t].pc = "footer" /\ threads[t].exit_by = "duration")
              => threads[t].duration > 0 /\ Elapsed(t) >= threads[t].duration

(* A thread has left its loop by the duration check, with no stop call *)
C5_Witness ==
    \E t \in ThreadIds :
        /\ threads[t].pc = "footer" /\ threads[t].exit_by = "duration"
        /\ caller.pc = "ready" /\ ~caller.stopped
        /\ ~monitoring

(* stop_monitoring has been called in the current session *)
StopCalled == caller.pc = "join" \/ caller.stopped

(* C6 as claimed: in the session started with interval=3 and duration=10
   on at least one target, a thread that raised nothing leaves the loop by
   the flag only after a stop call, and by the duration check after 3 or 4
   completed cycles. *)
C6_ThreeToFourCycles ==
    \A t \in ThreadIds :
        (threads[t].pc = "footer" /\ ~threads[t].raised /\ targets # <<>>) =>
            /\ threads[t].exit_by = "flag" => StopCalled
            /\ threads[t].exit_by = "duration" => threads[t].completed \in 3..4

(* C6, amended: the same, with 4 or 5 completed cycles. *)
C6_FourToFiveCycles ==
    \A t \in ThreadIds :
        (threads[t].pc = "footer" /\ ~threads[t].raised /\ targets # <<>>) =>
            /\ threads[t].exit_by = "flag" => StopCalled
            /\ threads[t].exit_by = "duration" => threads[t].completed \in 4..5

(* The session has ended by itself after five cycles, with no stop call *)
C6_Witness ==
    \E t \in ThreadIds :
        /\ threads[t].pc = "footer" /\ threads[t].exit_by = "duration"
        /\ ~threads[t].raised /\ ~StopCalled
        /\ threads[t].completed = 5
        /\ threads[t].interval = 3 /\ threads[t].duration = 10

InLoop(t) ==
    threads[t].pc \in {"top", "collect", "lock", "append", "display",
                       "durcheck", "sleep", "except"}

(* C7: from the return of stop_monitoring until the next start_monitoring
   the joined thread has ended, the sampler is Idle, no thread is in the
   loop, and the store does not change. *)
C7_StoppedMeansQuiet ==
    /\ [](caller.stopped =>
            /\ ~monitoring
            /\ SamplerState = "Idle"
            /\ monitor_thread # 0 => CurrentThread.pc = "done"
            /\ \A t \in ThreadIds : ~InLoop(t))
    /\ [][(caller.stopped /\ caller'.stopped) =>
             (data' = data /\ dicts'[data'] = dicts[data])]_vars

(* stop_monitoring has returned after joining a thread that had appended
   a batch *)
C7_Witness ==
    /\ caller.pc = "ready" /\ caller.stopped
    /\ monitor_thread # 0
    /\ CurrentThread.completed >= 1
    /\ CurrentThread.exit_by = "flag"
    /\ Series(svc) # <<>>

(* C8: a cycle under way runs to its end whatever the flag says (the batch
   collected is appended item by item and is in the store in full when the
   lock is released), and a thread that reads a cleared flag at the loop
   test leaves the loop and never comes back to it. *)
C8_CycleCompletes ==
    /\ [](\A t \in ThreadIds : threads[t].pc = "display" => BatchAppended(t))
    /\ [][\A t \in ThreadIds :
            /\ (threads[t].pc = "lock" /\ threads'[t].pc # "lock")
                  => threads'[t].pc = "append"
            /\ (threads[t].pc = "append" /\ threads'[t] # threads[t])
                  => \/ /\ threads'[t].pc = "append"
                        /\ threads'[t].k = threads[t].k + 1
                        /\ LET d == threads[t].all_data[threads[t].k]
                           IN dicts'[data][d.target]
                                 = Append(dicts[data][d.target], d)
                     \/ /\ threads'[t].pc = "display"
                        /\ threads[t].k > Len(threads[t].all_data)
            /\ (threads[t].pc = "top" /\ ~monitoring /\ threads'[t] # threads[t])
                  => threads'[t].pc = "footer"
            /\ threads[t].pc \in {"footer", "done"}
                  => threads'[t].pc \in {"footer", "done"}]_vars

(* A stop request is pending (the caller waits in join, the flag is
   cleared) while the thread has just appended its batch in full *)
C8_Witness ==
    \E t \in ThreadIds :
        /\ caller.pc = "join" /\ ~monitoring
        /\ threads[t].pc = "display"
        /\ Len(threads[t].all_data) = 2
        /\ BatchAppended(t)

(* C9: the sampler's state changes only Idle -> Running, Running ->
   Stopping and Stopping -> Idle. *)
C9_Transitions ==
    [][SamplerState' # SamplerState =>
          <<SamplerState, SamplerState'>> \in
              {<<"Idle", "Running">>, <<"Running", "Stopping">>,
               <<"Stopping", "Idle">>}]_vars

(* C10: a thread in `except Exception` goes on to the loop test after the
   sleep of one interval; a thread leaves the loop only with the flag
   cleared, so no exception ends it while monitoring is requested. *)
C10_ExceptionAbsorbed ==
    [][\A t \in ThreadIds :
          /\ (threads[t].pc = "except" /\ threads'[t] # threads[t])
                => /\ threads'[t].pc = "top"
                   /\ now' = now + threads[t].interval
          /\ (InLoop(t) /\ ~InLoop(t)')
                => /\ ~monitoring'
                   /\ threads'[t].pc = "footer"
                   /\ threads[t].pc \in {"top", "durcheck"}]_vars

(* After an exception the thread has begun another iteration *)
C10_Witness ==
    \E t \in ThreadIds :
        /\ threads[t].raised
        /\ threads[t].pc = "collect"
        /\ threads[t].iters = 2
        /\ monitoring

(* C11: sampling never changes the configured targets, and every cycle asks
   for every configured target afresh: the batch of a cycle has one sample
   per target, and the sample of a target whose process was found in this
   cycle is the real one (its PID, command and metrics), whatever happened
   to that target in the cycles before. *)
C11_ResolvedAfresh ==
    /\ [][targets' = targets]_vars
    /\ [](\A t \in ThreadIds :
            /\ threads[t].pc \in {"lock", "append", "display"}
                  => Len(threads[t].all_data) = Len(DictKeys(targets))
            /\ \A n \in 1..Len(threads[t].all_data) :
                  LET d == threads[t].all_data[n]
                      o == threads[t].outcomes[n]
                  IN /\ d.target = DictKeys(targets)[n][1]
                     /\ o.kind = "live" =>
                           /\ d.pid = o.candidate
                           /\ d.cpu_percent = LiveInfo.cpu_percent
                           /\ d.command = LiveInfo.comm
                           /\ ~ZeroMetrics(d))

(* The name matched no process in the first cycle and a live one in the
   second: the series holds a zero sample, then a real one *)
C11_Witness ==
    /\ monitor_thread # 0 /\ CurrentThread.completed = 2
    /\ data_lock = 0
    /\ Len(Series(svc)) = 2
    /\ Series(svc)[1].pid = 0 /\ ZeroMetrics(Series(svc)[1])
    /\ Series(svc)[2].pid = 7 /\ ~ZeroMetrics(Series(svc)[2])
    /\ Series(svc)[2].cpu_percent = 2

(* C20 as claimed: when the collection of a cycle took no longer than the
   interval, the next cycle starts exactly one interval after that cycle
   started. *)
C20_StartsIntervalApart ==
    \A t \in ThreadIds :
        (/\ threads[t].pc = "collect"
         /\ threads[t].cycle_start # None
         /\ threads[t].took <= threads[t].interval)
            => now - threads[t].cycle_start = threads[t].interval

(* C20, amended: the loop sleeps for the whole interval after each cycle,
   so the next cycle starts one interval plus the time the collection took
   after that cycle started. *)
C20_StartsIntervalPlusCollection ==
    \A t \in ThreadIds :
        (threads[t].pc = "collect" /\ threads[t].cycle_start # None)
            => now - threads[t].cycle_start
                   = threads[t].interval + threads[t].took

(* A second cycle starts after a first that appended its batch and whose
   collection took time *)
C20_Witness ==
    \E t \in ThreadIds :
        /\ threads[t].pc = "collect"
        /\ threads[t].cycle_start # None
        /\ threads[t].took = 1
        /\ threads[t].interval = 2
        /\ threads[t].completed = 1
        /\ now - threads[t].cycle_start = 3

(* The command name ps reported for pid, <<>> when it reported none *)
Reported(pid) ==
    IF probe.ps[pid].ok THEN strip(probe.ps[pid].stdout) ELSE <<>>

SameIgnoringCase(a, b) ==
    Len(a) = Len(b) /\ \A i \in 1..Len(a) : LowerChar(a[i]) = LowerChar(b[i])

(* comm is a path whose last component, after a / or a \, is name *)
PathEndsWith(comm, name) ==
    \E k \in 1..Len(comm) :
        comm[k] \in {"/", "\\"} /\ SubSeq(comm, k + 1, Len(comm)) = name

(* The process pid genuinely runs the executable asked for *)
Genuine(pid) ==
    /\ Reported(pid) # <<>>
    /\ \/ SameIgnoringCase(Reported(pid), probe.process_name)
       \/ PathEndsWith(Reported(pid), probe.process_name)

(* The PIDs of a pgrep answer that are genuine, in the order printed *)
GenuineOf(answer) ==
    LET cand == SelectSeq(answer.lines,
                          LAMBDA l : AllDigits(l) /\ Genuine(int(l)))
    IN IF answer.kind = "ok" /\ answer.returncode = 0
       THEN [i \in 1..Len(cand) |-> int(cand[i])]
       ELSE <<>>

(* C14: the exact-name query is the first query of a resolution, and when
   it yields at least one verified PID the call returns exactly the
   verified PIDs of the exact query, without making the prefix query. *)
C14_ExactPreferred ==
    probe.pc # "none" =>
        /\ probe.pc # "call" => (probe.queries # <<>> /\ probe.queries[1] = "exact")
        /\ (probe.pc = "returned" /\ GenuineOf(probe.exact) # <<>>) =>
              /\ probe.returned = GenuineOf(probe.exact)
              /\ probe.queries = <<"exact">>

(* The exact query gave a verified PID while the prefix query would have
   given another genuine one, and only the former is returned *)
C14_Witness ==
    /\ probe.pc = "returned"
    /\ GenuineOf(probe.exact) = <<7>>
    /\ GenuineOf(probe.prefix) = <<7, 8>>
    /\ probe.returned = <<7>>

(* C15: every PID in valid_pids, and so every PID returned, was accepted by
   verify_process_executable for the requested name in this resolution, on
   the exact path and on the prefix path. *)
C15_OnlyVerified ==
    probe.pc # "none" =>
        /\ \A i \in 1..Len(probe.valid_pids) :
              [pid |-> probe.valid_pids[i], ok |-> TRUE] \in probe.checked
        /\ \A i \in 1..Len(probe.returned) :
              [pid |-> probe.returned[i], ok |-> TRUE] \in probe.checked

(* The prefix query gave two candidates, one of which failed verification,
   and the other is returned *)
C15_Witness ==
    /\ probe.pc = "returned" /\ probe.path = "prefix"
    /\ probe.pids = << <<"7">>, <<"8">> >>
    /\ [pid |-> 7, ok |-> FALSE] \in probe.checked
    /\ probe.returned = <<8>>

(* C16: verify_process_executable accepts exactly when ps reported a command
   name that equals the requested name up to case or is a path ending in a
   separator followed by the requested name; foobar is rejected for foo. *)
C16_VerifyAccepts ==
    probe.pc # "none" =>
        \A c \in probe.checked :
            /\ c.ok <=> Genuine(c.pid)
            /\ (Reported(c.pid) = foobar /\ probe.process_name = foo) => ~c.ok

(* One candidate reported foobar and was rejected, the other reported a
   path ending in /foo and was accepted *)
C16_Witness ==
    /\ probe.pc = "returned"
    /\ probe.process_name = foo
    /\ Reported(7) = foobar /\ [pid |-> 7, ok |-> FALSE] \in probe.checked
    /\ Reported(8) = bin_foo /\ [pid |-> 8, ok |-> TRUE] \in probe.checked

(* A save_data_to_file or load_data_from_file call returns in this step *)
Returns(op) == result'.n # result.n /\ result'.op = op

(* C12: load_data_from_file of a file save_data_to_file wrote returns True
   and leaves a store equal to the store that was saved: the same targets,
   the same samples in the same order, every field equal, and fd_count and
   thread_count on a sample exactly when the saved sample had them. *)
C12_RoundTrip ==
    [][(Returns("load") /\ file.kind = "json" /\ file.writer = "save") =>
          /\ result'.value = "True"
          /\ dicts'[data'] = file.saved
          /\ \A t \in TargetUniverse :
                /\ Len(dicts'[data'][t]) = Len(file.saved[t])
                /\ \A n \in 1..Len(file.saved[t]) :
                      /\ DOMAIN dicts'[data'][t][n] = DOMAIN file.saved[t][n]
                      /\ dicts'[data'][t][n].timestamp
                            = file.saved[t][n].timestamp]_vars

(* Two cycles were saved without the optional metrics and loaded back,
   into another store than the one saved from; no sample has fd_count or
   thread_count *)
C12_Witness ==
    /\ result.op = "load" /\ result.value = "True"
    /\ file.kind = "json" /\ file.writer = "save"
    /\ Len(file.saved[svc]) = 2 /\ Len(file.saved[pid12]) = 2
    /\ dicts[data] = file.saved
    /\ monitor_thread # 0 /\ CurrentThread.pc = "done"
    /\ Series(svc)[2].timestamp = 1
    /\ "thread_count" \notin DOMAIN Series(svc)[1]
    /\ "fd_count" \notin DOMAIN Series(svc)[1]

(* C13: a save_data_to_file or load_data_from_file call that fails returns
   None or False, and the store is after the call what it was before. *)
C13_FailureLeavesStore ==
    [][((Returns("save") \/ Returns("load")) /\ result'.failed) =>
          /\ result'.value \in {"None", "False"}
          /\ dicts'[data'] = dicts[data]]_vars

(* The series of name in the data the report was made from *)
Analysed(name) == ItemsOf(report.analyzed, name)

(* The report was made from a file that holds the store as it is now *)
ReportOfStore ==
    /\ report.analyzed # <<>>
    /\ report.analyzed = data_to_save(dicts[data])

(* C17: whenever no append is under way, a name that matched no process in
   any cycle of the session has one sample per completed cycle, each with
   pid 0 and cpu 0; and in the report made from the saved store, a target
   whose cpu was the same value c in every sample has as many data points
   as samples, cpu avg = c and cpu std = 0. *)
C17_ZeroSeriesConstantCpu ==
    /\ (monitor_thread # 0 /\ data_lock = 0) =>
          \A t \in Configured :
              (~is_pid(t) /\ t \in CurrentThread.never_matched) =>
                  /\ Len(Series(t)) = CurrentThread.completed
                  /\ \A i \in 1..Len(Series(t)) :
                        Series(t)[i].pid = 0 /\ Series(t)[i].cpu_percent = 0
    /\ ReportOfStore =>
          \A t \in Configured :
              (/\ Series(t) # <<>>
               /\ \A i \in 1..Len(Series(t)) :
                     Series(t)[i].cpu_percent = Series(t)[1].cpu_percent) =>
                  /\ t \in DOMAIN report.report_data
                  /\ report.report_data[t].data_points = Len(Series(t))
                  /\ report.report_data[t].cpu.avg
                        = 100 * Series(t)[1].cpu_percent
                  /\ report.report_data[t].cpu.std = 0

(* Two cycles in which the name matched nothing and the PID was a live
   process with cpu 2, saved and analysed *)
C17_Witness ==
    /\ ReportOfStore
    /\ monitor_thread # 0 /\ CurrentThread.completed = 2
    /\ svc \in CurrentThread.never_matched
    /\ Len(Series(svc)) = 2
    /\ Series(svc)[1].pid = 0 /\ Series(svc)[2].pid = 0
    /\ Series(pid12)[1].cpu_percent = 2 /\ Series(pid12)[2].cpu_percent = 2
    /\ report.report_data[pid12].cpu.avg = 200
    /\ report.report_data[pid12].cpu.std = 0
    /\ report.report_data[svc].data_points = 2

(* Some sample of the series has a value other than 0 under key *)
SomeNonZero(series, key) ==
    \E i \in 1..Len(series) :
        key \in DOMAIN series[i] /\ series[i][key] # 0

(* C18: the analysis of a series has an optional group exactly when some
   sample of the series has a non-zero value of that group; a series whose
   thread_count is 0 or missing in every sample has no thread-count group,
   whether or not the samples carry the key. *)
C18_OptionalGroups ==
    \A name \in DOMAIN report.report_data :
        LET a == report.report_data[name]
            series == Analysed(name)
        IN /\ "thread_count" \in DOMAIN a <=> SomeNonZero(series, "thread_count")
           /\ "disk_io" \in DOMAIN a <=>
                 (\/ SomeNonZero(series, "disk_read_bytes")
                  \/ SomeNonZero(series, "disk_write_bytes"))
           /\ "network_io" \in DOMAIN a <=>
                 (\/ SomeNonZero(series, "network_rx_bytes")
                  \/ SomeNonZero(series, "network_tx_bytes"))
           /\ "context_switches" \in DOMAIN a <=>
                 (\/ SomeNonZero(series, "voluntary_switches")
                  \/ SomeNonZero(series, "involuntary_switches"))

(* A series every sample of which carries thread_count 0 was analysed, and
   the analysis has no thread-count group *)
C18_Witness ==
    /\ svc \in DOMAIN report.report_data
    /\ Len(Analysed(svc)) = 3
    /\ \A i \in 1..3 :
          /\ "thread_count" \in DOMAIN Analysed(svc)[i]
          /\ Analysed(svc)[i].thread_count = 0
    /\ "thread_count" \notin DOMAIN report.report_data[svc]

(* The analysis keys of the basic metrics, with the sample key of each *)
BasicMetrics ==
    {<<"cpu", "cpu_percent">>, <<"memory_percent", "memory_percent">>,
     <<"memory_mb", "memory_mb">>}

(* The values of a series under a key, and their total *)
ValuesOf(series, key) == [i \in 1..Len(series) |-> series[i][key]]

(* st.max and st.min are the largest and the smallest of the values, in
   hundredths, and st.std is 0 for a single value *)
ExtremesAndSingle(st, xs) ==
    /\ \E i \in 1..Len(xs) : st.max = 100 * xs[i]
    /\ \A i \in 1..Len(xs) : st.max >= 100 * xs[i]
    /\ \E i \in 1..Len(xs) : st.min = 100 * xs[i]
    /\ \A i \in 1..Len(xs) : st.min <= 100 * xs[i]
    /\ Len(xs) = 1 => st.std = 0

(* C19 as claimed: for every analysed series and each of cpu,
   memory-percent and memory-MB, avg is the mean of the values, max and min
   their maximum and minimum, and std is 0 for a single sample. *)
C19_ExactMean ==
    \A name \in DOMAIN report.report_data :
        \A m \in BasicMetrics :
            LET st == report.report_data[name][m[1]]
                xs == ValuesOf(Analysed(name), m[2])
            IN /\ st.avg * Len(xs) = 100 * sum(xs)
               /\ ExtremesAndSingle(st, xs)

(* C19, amended: avg is the mean rounded to two decimals (the hundredth
   nearest to it), max and min are the maximum and minimum, std is 0 for a
   single sample and, for more, the sample standard deviation rounded to
   two decimals. *)
C19_RoundedMean ==
    \A name \in DOMAIN report.report_data :
        \A m \in BasicMetrics :
            LET st == report.report_data[name][m[1]]
                xs == ValuesOf(Analysed(name), m[2])
                n == Len(xs)
                dev == st.avg * n - 100 * sum(xs)
                \* n (n - 1) times the sample variance
                ss == n * sum([i \in 1..n |-> xs[i] * xs[i]]) - sum(xs) * sum(xs)
            IN /\ 2 * dev <= n /\ 2 * dev >= 0 - n
               /\ ExtremesAndSingle(st, xs)
               /\ n > 1 =>
                     /\ (2 * st.std + 1) * (2 * st.std + 1) * n * (n - 1) > 40000 * ss
                     /\ st.std > 0 =>
                           (2 * st.std - 1) * (2 * st.std - 1) * n * (n - 1) <= 40000 * ss

(* The series with cpu 1, 2, 2 was analysed: avg 1.67, max 2, min 1,
   std 0.58 *)
C19_Witness ==
    /\ svc \in DOMAIN report.report_data
    /\ ValuesOf(Analysed(svc), "cpu_percent") = <<1, 2, 2>>
    /\ report.report_data[svc].cpu.avg = 167
    /\ report.report_data[svc].cpu.max = 200
    /\ report.report_data[svc].cpu.min = 100
    /\ report.report_data[svc].cpu.std = 58

(* C21: whenever the exact query was answered and gave no verified PID (it
   printed nothing, or every PID it printed was rejected), the prefix query
   is made and the call returns the verified PIDs of the prefix query. *)
C21_PrefixFallback ==
    (/\ probe.pc = "returned"
     /\ probe.exact.kind = "ok"
     /\ GenuineOf(probe.exact) = <<>>) =>
        /\ probe.queries = <<"exact", "prefix">>
        /\ probe.returned = GenuineOf(probe.prefix)

(* Thread t has been started and has not left the while loop *)
Sampling(t) == threads[t].pc = "begin" \/ InLoop(t)

(* C22: at most one thread is between its start and its leaving the loop,
   whatever start_monitoring and stop_monitoring calls the caller makes and
   whenever a duration expires. *)
C22_OneThreadInLoop ==
    \A t1, t2 \in ThreadIds : (Sampling(t1) /\ Sampling(t2)) => t1 = t2

(* The first session ended by its duration check and its thread has not
   yet ended; start_monitoring was called again and the second thread is in
   its loop *)
C22_Witness ==
    /\ threads[1].pc = "footer" /\ threads[1].exit_by = "duration"
    /\ monitor_thread = 2 /\ monitoring
    /\ threads[2].pc = "collect"
    /\ ~caller.stopped

(* Thread th, holding data_lock, is about to append to the list of target t *)
WritesUnderLock(th, t) ==
    /\ threads[th].pc = "append"
    /\ data_lock = th
    /\ threads[th].k <= Len(threads[th].all_data)
    /\ threads[th].all_data[threads[th].k].target = t

(* The caller, which holds no lock, reads the store's own list of target t
   through the mapping get_data returned *)
ReadsWithoutLock(t) ==
    snap.valid /\ snap.id = data /\ t \in snap.keys /\ caller.pc = "ready"

(* C23: every access to the store's mapping is made under data_lock: a
   thread that appends holds the lock, and a list of the store is never
   written under the lock while the caller can read it without the lock. *)
C23_AccessUnderLock ==
    /\ \A th \in ThreadIds : threads[th].pc = "append" => data_lock = th
    /\ \A th \in ThreadIds, t \in TargetUniverse :
          ~(WritesUnderLock(th, t) /\ ReadsWithoutLock(t))

(* C24: the timestamps of every series are strictly increasing, and the
   sample a thread appends in its cycle k (after k - 1 completed cycles)
   becomes the k-th and last sample of its target's series, so that the k-th
   samples of all series come from the same cycle. *)
C24_OrderedSeries ==
    /\ [](\A t \in TargetUniverse : \A k \in 1..(Len(Series(t)) - 1) :
            Series(t)[k].timestamp < Series(t)[k + 1].timestamp)
    /\ [][\A th \in ThreadIds :
            (threads[th].pc = "append" /\ threads'[th].k = threads[th].k + 1) =>
                LET d == threads[th].all_data[threads[th].k]
                IN /\ Len(dicts'[data'][d.target]) = threads[th].completed + 1
                   /\ dicts'[data'][d.target][threads[th].completed + 1] = d
                   /\ \A t \in TargetUniverse \ {d.target} :
                         dicts'[data'][t] = dicts[data][t]]_vars

(* Three cycles of a session with interval 2 are in the store, each batch
   with a later timestamp than the one before *)
C24_Witness ==
    /\ data_lock = 0
    /\ monitor_thread # 0 /\ CurrentThread.completed = 3
    /\ CurrentThread.interval = 2
    /\ Len(Series(svc)) = 3 /\ Len(Series(pid12)) = 3
    /\ Series(svc)[1].timestamp < Series(svc)[2].timestamp
    /\ Series(svc)[2].timestamp < Series(svc)[3].timestamp
    /\ Series(pid12)[3].timestamp = Series(svc)[3].timestamp

(* C25: with at least one target, every iteration a thread has begun and
   brought to its end (by the duration check, the sleep or the exception
   handler) has appended its batch: the thread has completed as many cycles
   as it has begun iterations, one less while an iteration is under way, and
   between two iterations every series of its store holds one sample for
   each iteration. *)
C25_NoMissedCycle ==
    \A t \in ThreadIds :
        targets # <<>> =>
            /\ threads[t].pc \in {"display", "durcheck", "sleep", "except",
                                  "top", "footer"}
                  => threads[t].completed = threads[t].iters
            /\ threads[t].pc \in {"collect", "lock", "append"}
                  => threads[t].completed = threads[t].iters - 1
            /\ (t = monitor_thread
                /\ threads[t].pc \in {"durcheck", "sleep", "except", "top"})
                  => \A x \in Configured : Len(Series(x)) = threads[t].iters

(* The first iteration ended in the exception handler and the second by
   the duration check and the sleep; both batches are in the store *)
C25_Witness ==
    \E t \in ThreadIds :
        /\ monitoring /\ t = monitor_thread
        /\ threads[t].raised
        /\ threads[t].pc = "sleep"
        /\ threads[t].iters = 2 /\ threads[t].completed = 2
        /\ Len(Series(svc)) = 2 /\ Len(Series(pid12)) = 2

(* The samples of the store and of the batches under way *)
AllSamples ==
    UNION {{Series(t)[k] : k \in 1..Len(Series(t))} : t \in TargetUniverse}
    \cup UNION {{threads[th].all_data[n] : n \in 1..Len(threads[th].all_data)} :
                   th \in ThreadIds}

(* C26: every sample collected, real or zero-valued, has fd_count exactly
   when monitor_config enables file_descriptors and thread_count exactly
   when it enables thread_count, so all samples have the same fields. *)
C26_UniformFields ==
    /\ \A d \in AllSamples :
          /\ "fd_count" \in DOMAIN d <=> monitor_config.file_descriptors
          /\ "thread_count" \in DOMAIN d <=> monitor_config.thread_count
    /\ \A d1, d2 \in AllSamples : DOMAIN d1 = DOMAIN d2

(* With file descriptors enabled and thread count disabled, a series holds
   a zero sample and then a real one, both with fd_count and without
   thread_count *)
C26_Witness ==
    /\ monitor_config.file_descriptors /\ ~monitor_config.thread_count
    /\ Len(Series(svc)) = 2
    /\ ZeroMetrics(Series(svc)[1]) /\ ~ZeroMetrics(Series(svc)[2])
    /\ "fd_count" \in DOMAIN Series(svc)[1]
    /\ Series(svc)[1].fd_count = 0 /\ Series(svc)[2].fd_count = 4
    /\ "thread_count" \notin DOMAIN Series(svc)[1]
    /\ "thread_count" \notin DOMAIN Series(svc)[2]

(* C27: the pid, command and args of an analysis are those of the first
   sample of the series analysed, whatever PID, command or args the later
   samples carry. *)
C27_FirstSampleIdentity ==
    \A name \in DOMAIN report.report_data :
        LET a == report.report_data[name]
            first == Analysed(name)[1]
        IN /\ a.pid = first.pid
           /\ a.command = first.command
           /\ a.args = first.args

(* A series of three samples was analysed whose second and third samples
   are of another process (PID 8, another command and args) than the first
   (PID 7), and the analysis reports the first *)
C27_Witness ==
    /\ svc \in DOMAIN report.report_data
    /\ Len(Analysed(svc)) = 3
    /\ Analysed(svc)[1].pid = 7
    /\ Analysed(svc)[2].pid = 8 /\ Analysed(svc)[3].pid = 8
    /\ Analysed(svc)[3].command # Analysed(svc)[1].command
    /\ Analysed(svc)[3].args # Analysed(svc)[1].args
    /\ report.report_data[svc].pid = 7
    /\ report.report_data[svc].command = svc
    /\ report.report_data[svc].args = svc \o <<" ", "-", "d">>

(* C28: across every step taken while the sampler is and stays Running, a
   start_monitoring call included, the report directory and the stored
   interval and duration, the thread handle and the store stay the same, no
   thread is started, and a series changes only by an append of the loop
   under data_lock. *)
C28_StartWhileRunningNoOp ==
    [][(monitoring /\ monitoring') =>
          /\ session' = session
          /\ monitor_thread' = monitor_thread
          /\ data' = data
          /\ \A t \in ThreadIds :
                threads[t].pc = "none" => threads'[t].pc = "none"
          /\ dicts'[data'] # dicts[data] => data_lock # 0]_vars

(* The sampler is Running, its thread sleeps after a first cycle, and a
   start_monitoring call with other parameters is possible and changes
   nothing *)
C28_Witness ==
    /\ monitoring /\ caller.pc = "ready"
    /\ monitor_thread = 1 /\ CurrentThread.pc = "sleep"
    /\ CurrentThread.completed = 1
    /\ session.monitoring_duration = None
    /\ Len(Series(svc)) = 1
    /\ threads[2].pc = "none"
    /\ ENABLED (start_monitoring(1, 1, MaxSessions) /\ UNCHANGED vars)

(* C29: a start_monitoring call that starts a session leaves an empty store
   and a thread that has appended nothing; and as long as that session's
   thread has not ended, the store holds only what this thread appended:
   one sample per target for each cycle it completed, none older than its
   start, whatever was collected or loaded before the call. *)
C29_FreshStoreOnStart ==
    /\ [][session'.started # session.started =>
             /\ \A t \in TargetUniverse : dicts'[data'][t] = <<>>
             /\ monitor_thread' = session'.started
             /\ threads'[monitor_thread'].pc = "begin"
             /\ threads'[monitor_thread'].completed = 0]_vars
    /\ [](SamplerState # "Idle" =>
            /\ data_lock = 0 =>
                  \A t \in Configured : Len(Series(t)) = CurrentThread.completed
            /\ \A t \in TargetUniverse :
                  /\ Len(Series(t)) <= CurrentThread.completed + 1
                  /\ \A k \in 1..Len(Series(t)) :
                        /\ Series(t)[k].timestamp >= CurrentThread.start_time
                        /\ Series(t)[k].timestamp <= now)

(* A first session collected samples and a file was loaded; the second
   session has completed one cycle and its series hold that cycle alone *)
C29_Witness ==
    /\ monitor_thread = 2 /\ monitoring
    /\ threads[1].pc = "done" /\ threads[1].completed >= 1
    /\ result.op = "load" /\ result.value = "True"
    /\ CurrentThread.pc = "sleep" /\ CurrentThread.completed = 1
    /\ Len(Series(svc)) = 1 /\ Len(Series(pid12)) = 1
    /\ Series(svc)[1].timestamp = now

(* The sampler was stopped while Running: main calls stop_monitoring in its
   try block only once it has read the flag cleared, which only the
   duration check does, so a thread that left its loop on the flag was
   stopped by the stop_monitoring of the finally clause, after a signal. *)
InterruptedWhileRunning ==
    monitor_thread # 0 /\ CurrentThread.exit_by = "flag"

(* C30: when main is over after the user interrupted it while the sampler
   was Running, the sampler has been stopped, save_data_to_file has been
   called on the samples collected and the summary has been made. *)
C30_InterruptSaves ==
    (caller.pc = "exit" /\ InterruptedWhileRunning) =>
        /\ SamplerState = "Idle"
        /\ result.op = "save"
        /\ snap.valid

====
